---------------------------- MODULE Spec2Model ----------------------------
(***************************************************************************)
(* Capture-to-transport pipeline of snacka (SnackaCaptureLinux /           *)
(* SnackaCaptureWindows): the VAAPI encoder session (GOP cadence,          *)
(* reference bookkeeping, Annex-B to AVCC reframing) and the callbacks    *)
(* that write encoded video, raw video and audio packets to stdout and    *)
(* stderr.                                                                 *)
(*                                                                         *)
(* The specifications share the variables:                                 *)
(*   SpecReframe  ConvertAnnexBToAVCC applied to one bounded input buffer  *)
(*   SpecEnc      one VaapiEncoder object driven through its public API    *)
(*   SpecCache    ConvertAnnexBToAVCC applied to several buffers in a row  *)
(*   SpecMux      the threads of Capture() writing to stdout and stderr    *)
(*   SpecSetup    Capture() setting up the encoder                         *)
(*   SpecHeader   the packet headers of Protocol.h, built and read back    *)
(*   SpecShutdown Capture() starting the capturers and tearing them down   *)
(*   SpecConvert  ConvertYUYVToNV12 applied to one bounded frame           *)
(*   SpecBgra     ConvertBGRAtoNV12 applied to one bounded frame           *)
(*   SpecMf       one MediaFoundationEncoder object and its transform     *)
(*   SpecSessions one encoder session of either class                      *)
(*   SpecNal      OutputNalUnits applied to one bounded output buffer      *)
(*   SpecUpload   EncodeNV12 copying one frame into the encoder's surface  *)
(*   SpecCApi     threads calling the renderer's C API (CApi.cpp)         *)
(***************************************************************************)
EXTENDS Integers, Sequences, FiniteSets, TLC

VARIABLES
    \* ---- VaapiEncoder fields (VaapiEncoder.h:70-119)
    m_gopSize, m_initialized, m_frameCount, m_surfaces, m_currentSurface,
    m_refSurface, m_refSurfaceIndex, m_sps, m_pps, m_haveSpsPs, m_avccBuffer,
    m_callback, m_frameNumInGop, m_idrPicId,
    \* ---- observation of the API calls made on the session
    surfGen,     \* number of vaCreateSurfaces calls so far (fresh surface ids)
    lastCall,    \* what the last call did: arguments to the hardware, result, callbacks
    nSubmit,     \* number of EncodeNV12 calls so far
    nOk,         \* number of EncodeNV12 calls that returned true
    nKey,        \* number of EncodeNV12 calls that returned true for a keyframe
    nLife,       \* number of Initialize / Stop calls so far
    stopState,   \* "open" before any Stop(), "stopped" from a Stop() until the next
                 \* Initialize() that succeeds, "reopened" from then on
    \* ---- input of the reframer specification
    rf_in, rf_pc,
    \* ---- argument and result of a pure function under test (headers, pixel conversion)
    pf_in, pf_out,
    \* ---- Capture(): process state shared by the threads (main.cpp)
    platform,           \* "linux" or "windows": which main.cpp runs
    encodeH264,         \* Capture's encodeH264 after the encoder was set up
    g_running,          \* std::atomic<bool> g_running
    g_stderrMutex,      \* std::mutex g_stderrMutex: "free" or the owning thread
    frameCount, encodedFrameCount, audioPacketCount,   \* Capture's statistics
    \* ---- the two pipes
    chanOpen,           \* per channel: the receiving end is still open
    stream,             \* per channel: the bytes accepted so far, as chunks of units
    \* ---- the video capture thread inside frameCallback
    vpc, vq, vcur, vCalls,
    \* ---- the audio capture thread inside audioCallback
    apc, acur, aCalls,
    \* ---- observation
    nCb,                \* invocations of the encoder's output callback so far
    lastDone,           \* per thread: the last frame / packet whose write callback returned
    wrFailed,           \* per channel: a write() of a frame or packet has failed
    wrAfterFail,        \* per channel: a frame or packet write() was attempted after that
    reports,            \* per channel: log lines reporting a failed write
    sigSent,            \* the shutdown signal was delivered
    \* ---- Capture(): the orchestrating thread and the capturers' threads
    mpc,                \* position of the thread that runs Capture()
    m_running,          \* per capturer: std::atomic<bool> m_running
    tpc,                \* per capturer: position of its capture thread
    seen,               \* per capturer: g_running as its callback read it on entry
    \* ---- MediaFoundationEncoder fields (MediaFoundationEncoder.h:88-110) and its transform
    m_encoder,          \* ComPtr<IMFTransform> m_encoder is set
    m_isAsync,          \* bool m_isAsync (with m_eventGen)
    mft,                \* the transform: frames it accepted whose output was not retrieved
    mfpc,               \* where the caller is inside Stop()
    delivered,          \* invocations of the output callback: frame, and the call that made it
    \* ---- the renderer's C API (SnackaWindowsRenderer/src/CApi.cpp)
    heap,               \* per address: the decoder object living there, 0 when none
    s_instances,        \* static std::unordered_map s_instances: its keys
    s_mutex,            \* static std::mutex s_mutex: 0 or the thread that holds it
    cpc,                \* per calling thread: where it is inside a C API function
    carg,               \* per calling thread: the handle it passed, and the object it runs on
    known,              \* handles mf_decoder_create has returned, with the object each named
    nInst,              \* decoder objects constructed so far
    deleted,            \* decoder objects whose destructor has run
    cret                \* the last return: the thread, the function, its result, the object it touched

encVars == <<m_gopSize, m_initialized, m_frameCount, m_surfaces, m_currentSurface,
             m_refSurface, m_refSurfaceIndex, m_sps, m_pps, m_haveSpsPs,
             m_avccBuffer, m_callback, m_frameNumInGop, m_idrPicId>>

obsVars == <<surfGen, lastCall, nSubmit, nOk, nKey, nLife, stopState>>

rfVars == <<rf_in, rf_pc>>

pfVars == <<pf_in, pf_out>>

muxVars == <<platform, encodeH264, g_running, g_stderrMutex, frameCount,
             encodedFrameCount, audioPacketCount, chanOpen, stream,
             vpc, vq, vcur, vCalls, apc, acur, aCalls,
             nCb, lastDone, wrFailed, wrAfterFail, reports, sigSent>>

shVars == <<mpc, m_running, tpc, seen>>

mfVars == <<m_encoder, m_isAsync, mft, mfpc, delivered>>

capiVars == <<heap, s_instances, s_mutex, cpc, carg, known, nInst, deleted, cret>>

vars == <<encVars, obsVars, rfVars, pfVars, muxVars, shVars, mfVars, capiVars>>

----------------------------------------------------------------------------
(* Bounds of the model *)

\* largest gopSize (= fps) tried
MaxGop == 4
\* EncodeNV12 calls per behaviour
MaxSubmits == 10
\* Initialize / Stop calls per behaviour
MaxLife == 3
\* tokens (bytes or start codes) of a reframer input buffer
MaxTokens == 6
\* frameCallback invocations per behaviour of the thread model
MaxFrames == 2
\* audioCallback invocations per behaviour of the thread model
MaxPackets == 1
\* largest sampleCount of an audio chunk
MaxSamples == 1
\* bytes of a raw NV12 frame (width * height * 3 / 2) in the thread model
RawFrameBytes == 6
\* tokens of one buffer fed to a reframer that keeps its cache between buffers
MaxCacheTokens == 3
\* buffers fed in a row to one reframer
MaxFeeds == 3
\* EncodeNV12 calls per behaviour of a MediaFoundationEncoder
MaxMfSubmits == 3
\* tokens of a buffer handed to OutputNalUnits
MaxWinTokens == 5
\* threads calling the renderer's C API
NumCallers == 2
\* addresses the allocator can hand out for a MediaFoundationDecoder
NumAddrs == 2
\* decoder objects constructed in one run
MaxDecoders == 2
\* largest width and height of a packed 4:2:2 frame given to the pixel conversion
MaxWidth == 4
MaxHeight == 4
\* largest number of pixels of such a frame
MaxPixels == 8

----------------------------------------------------------------------------
(* Program constants *)

NUM_SURFACES == 4
VA_INVALID_SURFACE == -1
NAL_SPS == 7
NAL_PPS == 8
\* sizeof(AudioPacketHeader)
AUDIO_HEADER_SIZE == 24
\* bytes per stereo frame: 2 channels * 2 bytes
BYTES_PER_SAMPLE == 4

----------------------------------------------------------------------------
(* Bytes and byte sequences *)

\* annexB[i], 0-based as in the source
At(b, i) == b[i + 1]

\* bytes lo .. hi-1 of b (0-based, half open): annexB + nalStart .. annexB + nalEnd
Slice(b, lo, hi) == SubSeq(b, lo + 1, hi)

\* htonl followed by memcpy of the 4 bytes: most significant byte first
BE32(n) == << (n \div 16777216) % 256, (n \div 65536) % 256,
              (n \div 256) % 256, n % 256 >>

\* annexB[nalStart] & 0x1F
NalType(byte) == byte % 32

----------------------------------------------------------------------------
(* VaapiEncoder::ConvertAnnexBToAVCC *)

\* the start-code test at position i: 4 for 00 00 00 01, 3 for 00 00 01, else 0
StartCodeLen(b, i) ==
    IF i + 4 <= Len(b) /\ At(b, i) = 0 /\ At(b, i + 1) = 0
                       /\ At(b, i + 2) = 0 /\ At(b, i + 3) = 1 THEN 4
    ELSE IF i + 3 <= Len(b) /\ At(b, i) = 0 /\ At(b, i + 1) = 0
                            /\ At(b, i + 2) = 1 THEN 3
    ELSE 0

\* mutant: the scan for the end of a unit knows only the 3-byte start code
RECURSIVE FindNalEnd_ThreeByteOnly(_, _)
FindNalEnd_ThreeByteOnly(b, j) ==
    IF j + 3 > Len(b) THEN Len(b)
    ELSE IF At(b, j) = 0 /\ At(b, j + 1) = 0 /\ At(b, j + 2) = 1 THEN j
    ELSE FindNalEnd_ThreeByteOnly(b, j + 1)

\* mutant: the scan for the end of a unit knows only the 4-byte start code
RECURSIVE FindNalEnd_FourByteOnly(_, _)
FindNalEnd_FourByteOnly(b, j) ==
    IF j + 4 > Len(b) THEN Len(b)
    ELSE IF At(b, j) = 0 /\ At(b, j + 1) = 0 /\ At(b, j + 2) = 0 /\ At(b, j + 3) = 1
         THEN j
    ELSE FindNalEnd_FourByteOnly(b, j + 1)

\* the inner loop: first j >= nalStart where a start code begins, else size
RECURSIVE FindNalEnd(_, _)
FindNalEnd(b, j) ==
    IF j + 3 > Len(b) THEN Len(b)
    ELSE IF At(b, j) = 0 /\ At(b, j + 1) = 0
            /\ ( At(b, j + 2) = 1
                 \/ (j + 4 <= Len(b) /\ At(b, j + 2) = 0 /\ At(b, j + 3) = 1) )
         THEN j
    ELSE FindNalEnd(b, j + 1)

\* mutant: a cached SPS is never replaced by a later one
EmitNal_KeepFirstSps(b, nalStart, nalEnd, st) ==
    LET nalType == NalType(At(b, nalStart))
        nal     == Slice(b, nalStart, nalEnd)
    IN  [ avcc |-> st.avcc \o BE32(nalEnd - nalStart) \o nal,
          sps  |-> IF nalType = NAL_SPS /\ st.sps = <<>> THEN nal ELSE st.sps,
          pps  |-> IF nalType = NAL_PPS THEN nal ELSE st.pps,
          have |-> IF nalType = NAL_PPS THEN TRUE ELSE st.have ]

\* the body of "if (nalStart < nalEnd)": cache SPS / PPS, append length + payload
EmitNal(b, nalStart, nalEnd, st) ==
    LET nalType == NalType(At(b, nalStart))
        nal     == Slice(b, nalStart, nalEnd)
    IN  [ avcc |-> st.avcc \o BE32(nalEnd - nalStart) \o nal,
          sps  |-> IF nalType = NAL_SPS THEN nal ELSE st.sps,
          pps  |-> IF nalType = NAL_PPS THEN nal ELSE st.pps,
          have |-> IF nalType = NAL_PPS THEN TRUE ELSE st.have ]

\* the outer loop "while (i < size)"
RECURSIVE ScanAnnexB(_, _, _)
ScanAnnexB(b, i, st) ==
    IF i >= Len(b) THEN st
    ELSE LET startCodeLen == StartCodeLen(b, i) IN
         IF startCodeLen = 0 THEN ScanAnnexB(b, i + 1, st)
         ELSE LET nalStart == i + startCodeLen
                  nalEnd   == FindNalEnd(b, nalStart)
              IN  ScanAnnexB(b, nalEnd,
                             IF nalStart < nalEnd
                             THEN EmitNal(b, nalStart, nalEnd, st) ELSE st)

\* one call: m_avccBuffer.clear(), the scan, and the callback records it makes
ConvertAnnexBToAVCC(annexB, isKeyframe, st) ==
    LET r == ScanAnnexB(annexB, 0, [ avcc |-> <<>>, sps |-> st.sps,
                                     pps |-> st.pps, have |-> st.have ])
    IN  [ avcc |-> r.avcc, sps |-> r.sps, pps |-> r.pps, have |-> r.have,
          cbs  |-> IF r.avcc # <<>> /\ st.cb
                   THEN st.cbs \o << [ data |-> r.avcc, key |-> isKeyframe,
                                        seg |-> st.seg ] >>
                   ELSE st.cbs,
          cb   |-> st.cb, seg |-> st.seg ]

----------------------------------------------------------------------------
(* Reframer inputs: buffers built from at most MaxTokens tokens, a token   *)
(* being a start code or one byte                                          *)

SC3 == <<0, 0, 1>>
SC4 == <<0, 0, 0, 1>>

\* 0x67 (SPS), 0x68 (PPS), 0x65 (IDR slice), 0 (part of a start code)
Tokens == { SC3, SC4, <<0>>, <<103>>, <<104>>, <<101>> }

RECURSIVE Flatten(_)
Flatten(ts) == IF ts = <<>> THEN <<>> ELSE Head(ts) \o Flatten(Tail(ts))

Buffers == { Flatten(ts) : ts \in UNION { [1..n -> Tokens] : n \in 0..MaxTokens } }

NoCall == [ op |-> "none" ]

EncInitFields ==
    /\ m_initialized = FALSE
    /\ m_frameCount = 0
    /\ m_surfaces = <<>>
    /\ m_currentSurface = 0
    /\ m_refSurface = VA_INVALID_SURFACE
    /\ m_refSurfaceIndex = 0
    /\ m_sps = <<>>
    /\ m_pps = <<>>
    /\ m_haveSpsPs = FALSE
    /\ m_avccBuffer = <<>>
    /\ m_frameNumInGop = 0
    /\ m_idrPicId = 0

ObsInit ==
    /\ surfGen = 0
    /\ lastCall = NoCall
    /\ nSubmit = 0
    /\ nOk = 0
    /\ nKey = 0
    /\ nLife = 0
    /\ stopState = "open"

Channels == { "stdout", "stderr" }
Threads == { "video", "audio" }
NoUnit == [ src |-> "none", sub |-> 0, seg |-> 0, n |-> 0 ]
NoWrite == [ u |-> NoUnit, size |-> 0, written |-> 0, short |-> FALSE, err |-> FALSE ]
NoDone == [ u |-> NoUnit, size |-> 0, short |-> FALSE, err |-> FALSE, running |-> TRUE ]

\* the thread model at rest: what the other specifications keep it at
MuxRest ==
    /\ g_running = TRUE
    /\ g_stderrMutex = "free"
    /\ frameCount = 0
    /\ encodedFrameCount = 0
    /\ audioPacketCount = 0
    /\ chanOpen = [ c \in Channels |-> TRUE ]
    /\ stream = [ c \in Channels |-> <<>> ]
    /\ vpc = "idle"
    /\ vq = <<>>
    /\ vcur = NoWrite
    /\ vCalls = 0
    /\ apc = "idle"
    /\ acur = NoWrite
    /\ aCalls = 0
    /\ nCb = 0
    /\ lastDone = [ t \in Threads |-> NoDone ]
    /\ wrFailed = [ c \in Channels |-> FALSE ]
    /\ wrAfterFail = [ c \in Channels |-> FALSE ]
    /\ reports = [ c \in Channels |-> 0 ]
    /\ sigSent = FALSE

\* no pure function is under test: what the other specifications keep
NoArgs == [ fn |-> "none" ]
PureRest == pf_in = NoArgs /\ pf_out = <<>>

\* the specifications without the orchestrating thread leave its state alone
ShRest ==
    /\ mpc = "off"
    /\ m_running = [ t \in Threads |-> FALSE ]
    /\ tpc = [ t \in Threads |-> "none" ]
    /\ seen = [ t \in Threads |-> TRUE ]

\* the specifications without a MediaFoundationEncoder leave its state alone
MfRest ==
    /\ m_encoder = FALSE
    /\ m_isAsync = FALSE
    /\ mft = <<>>
    /\ mfpc = "idle"
    /\ delivered = <<>>

\* Threads that call the renderer's C API, and the addresses operator new can hand out.
Callers == 1..NumCallers

Addrs == 1..NumAddrs

\* MFDecoderHandle is void*: nullptr is 0, every other value is an address.
NullHandle == 0

\* A call in progress: the function fn, the pointer value h it was given, inst, the
\* decoder object that value named when the caller got it from mf_decoder_create (0
\* when it never named one), dead, whether that object had been deleted when the call
\* was made, and obj, the decoder object the call has in hand (0 when none).
NoApiCall == [fn |-> "none", h |-> NullHandle, inst |-> 0, dead |-> FALSE, obj |-> 0]

NoResult == [by |-> 0, fn |-> "none", ret |-> FALSE, ran |-> 0, dead |-> FALSE]

\* The C API before the first call: no decoder object, an empty s_instances, s_mutex free.
CapiInit ==
    /\ heap = [a \in Addrs |-> 0]
    /\ s_instances = {}
    /\ s_mutex = 0
    /\ cpc = [t \in Callers |-> "idle"]
    /\ carg = [t \in Callers |-> NoApiCall]
    /\ known = {}
    /\ nInst = 0
    /\ deleted = {}
    /\ cret = NoResult

\* Specifications that never call the C API.
CapiRest == CapiInit

InitReframe ==
    /\ platform = "linux"
    /\ encodeH264 = TRUE
    /\ MuxRest
    /\ EncInitFields
    /\ m_gopSize = 1
    /\ m_callback = TRUE
    /\ ObsInit
    /\ rf_in \in Buffers
    /\ rf_pc = "ready"
    /\ PureRest
    /\ ShRest
    /\ MfRest
    /\ CapiRest

\* the reframer runs once on the buffer, with isKeyframe chosen by the caller
Reframe ==
    /\ rf_pc = "ready"
    /\ \E isKeyframe \in BOOLEAN :
         LET r == ConvertAnnexBToAVCC(rf_in, isKeyframe,
                     [ sps |-> m_sps, pps |-> m_pps, have |-> m_haveSpsPs,
                       cbs |-> <<>>, cb |-> m_callback, seg |-> 0 ])
         IN  /\ m_avccBuffer' = r.avcc
             /\ m_sps' = r.sps
             /\ m_pps' = r.pps
             /\ m_haveSpsPs' = r.have
             /\ lastCall' = [ op |-> "ConvertAnnexBToAVCC", cbs |-> r.cbs ]
    /\ rf_pc' = "done"
    /\ UNCHANGED << m_gopSize, m_initialized, m_frameCount, m_surfaces,
                    m_currentSurface, m_refSurface, m_refSurfaceIndex,
                    m_callback, m_frameNumInGop, m_idrPicId,
                    surfGen, nSubmit, nOk, nKey, nLife, stopState, rf_in, pfVars, mfVars, capiVars, shVars, muxVars >>

NextReframe == Reframe

SpecReframe == InitReframe /\ [][NextReframe]_vars

----------------------------------------------------------------------------
(* C3: what the reframer must produce, stated from the positions of the   *)
(* start codes in the buffer                                               *)

\* positions of the pattern 00 00 01
Pat3(b) == { p \in 0..(Len(b) - 3) :
               At(b, p) = 0 /\ At(b, p + 1) = 0 /\ At(b, p + 2) = 1 }

\* where the start code whose 00 00 01 is at p begins (one more leading 00
\* makes it the 4-byte form)
CodeStart(b, p) == IF p >= 1 /\ At(b, p - 1) = 0 THEN p - 1 ELSE p

\* the byte range after the start code at p: up to the next start code or the end
UnitHi(b, p) ==
    LET later == { q \in Pat3(b) : q > p }
    IN  IF later = {} THEN Len(b)
        ELSE CodeStart(b, CHOOSE q \in later : \A r \in later : q <= r)

RECURSIVE FramedFrom(_, _)
FramedFrom(b, ps) ==
    IF ps = {} THEN <<>>
    ELSE LET p  == CHOOSE q \in ps : \A r \in ps : q <= r
             lo == p + 3
             hi == UnitHi(b, p)
         IN  (IF lo < hi THEN BE32(hi - lo) \o Slice(b, lo, hi) ELSE <<>>)
             \o FramedFrom(b, ps \ {p})

ExpectedAVCC(b) == FramedFrom(b, Pat3(b))

NonEmptyUnits(b) == { p \in Pat3(b) : p + 3 < UnitHi(b, p) }

RECURSIVE SumUnitLen(_, _)
SumUnitLen(b, ps) ==
    IF ps = {} THEN 0
    ELSE LET p == CHOOSE q \in ps : TRUE
         IN  (UnitHi(b, p) - (p + 3)) + SumUnitLen(b, ps \ {p})

\* C3: the reframed buffer is the concatenation, in input order, of
\* [4-byte big-endian length][payload] for every non-empty byte range between
\* the end of a start code and the start of the next one (or the end of the
\* buffer); its length is 4 per emitted unit plus the unit lengths; and it is
\* what the callback receives (no callback for an empty result).
C3_ReframeIsLengthPrefixedUnits ==
    rf_pc = "done" =>
        /\ m_avccBuffer = ExpectedAVCC(rf_in)
        /\ Len(m_avccBuffer) = 4 * Cardinality(NonEmptyUnits(rf_in))
                               + SumUnitLen(rf_in, NonEmptyUnits(rf_in))
        /\ lastCall.cbs = IF m_avccBuffer = <<>> THEN <<>>
                          ELSE << [ data |-> m_avccBuffer,
                                    key |-> lastCall.cbs[1].key, seg |-> 0 ] >>

\* three units SPS, PPS, IDR behind 4-byte start codes: 3*4 + 3 bytes out
C3_Witness ==
    /\ rf_pc = "done"
    /\ rf_in = SC4 \o <<103>> \o SC4 \o <<104>> \o SC4 \o <<101>>
    /\ Len(m_avccBuffer) = 15
    /\ Len(lastCall.cbs) = 1

\* C36: whenever m_haveSpsPs is true, the cached SPS and the cached PPS are
\* both non-empty.
C36_ParameterSetsPresentWhenMarked ==
    m_haveSpsPs => (m_sps # <<>> /\ m_pps # <<>>)

\* the payloads of a length-prefixed buffer, in order (lengths below 256)
RECURSIVE PayloadsOf(_)
PayloadsOf(avcc) ==
    IF Len(avcc) < 4 THEN <<>>
    ELSE LET n == avcc[4]
         IN  << SubSeq(avcc, 5, 4 + n) >> \o PayloadsOf(SubSeq(avcc, 5 + n, Len(avcc)))

\* the payloads written back as an Annex-B stream, a 4-byte start code
\* before each
RECURSIVE Redelimited(_)
Redelimited(ps) ==
    IF ps = <<>> THEN <<>> ELSE SC4 \o Head(ps) \o Redelimited(Tail(ps))

\* what the reframer makes of a buffer, with nothing cached before
Reframed(b) ==
    ScanAnnexB(b, 0, [ avcc |-> <<>>, sps |-> <<>>, pps |-> <<>>, have |-> FALSE ]).avcc

\* C38: no emitted payload contains 00 00 01, and reframing the emitted
\* payloads, written back with a 4-byte start code before each, gives the
\* same length-prefixed output again.
C38_ReframeStableUnderRedelimiting ==
    rf_pc = "done" =>
        LET ps == PayloadsOf(m_avccBuffer)
        IN  /\ \A i \in 1..Len(ps) : Pat3(ps[i]) = {}
            /\ Reframed(Redelimited(ps)) = m_avccBuffer

\* a unit that starts with 00 and ends in 00, followed by a second unit
C38_Witness ==
    /\ rf_pc = "done"
    /\ rf_in = SC3 \o <<0, 101, 0>> \o SC4 \o <<104>>
    /\ PayloadsOf(m_avccBuffer) = << <<0, 101, 0>>, <<104>> >>

\* the number of 00 bytes the buffer ends in
RECURSIVE TrailingZeros(_)
TrailingZeros(b) ==
    IF b = <<>> \/ b[Len(b)] # 0 THEN 0
    ELSE 1 + TrailingZeros(SubSeq(b, 1, Len(b) - 1))

\* the buffer without the 00 bytes it ends in
WithoutTrailingZeros(b) == SubSeq(b, 1, Len(b) - TrailingZeros(b))

\* C26: for a buffer that ends in a proper prefix of a start code (one, two
\* or three trailing 00 bytes) those bytes are not matched as a start code
\* and are in no emitted payload: the result is what is expected of the
\* buffer without them.
C26_TrailingPartialStartCodeDiscarded ==
    (rf_pc = "done" /\ TrailingZeros(rf_in) \in 1..3)
        => m_avccBuffer = ExpectedAVCC(WithoutTrailingZeros(rf_in))

----------------------------------------------------------------------------
(* One reframer fed several buffers in a row: m_sps, m_pps and m_haveSpsPs *)
(* live as long as the session, m_avccBuffer is cleared per call            *)

\* a 4-byte start code, 0x67 (SPS), 0x68 (PPS), 0x65 (IDR slice)
CacheTokens == { SC4, <<103>>, <<104>>, <<101>> }

CacheBuffers ==
    { Flatten(ts) : ts \in UNION { [1..n -> CacheTokens] : n \in 0..MaxCacheTokens } }

\* the start-code positions of b whose unit is non-empty and has NAL type t
UnitsOfType(b, t) == { p \in NonEmptyUnits(b) : NalType(At(b, p + 3)) = t }

\* the payload of the last unit of type t in b
LastUnitOfType(b, t) ==
    LET p == CHOOSE q \in UnitsOfType(b, t) : \A r \in UnitsOfType(b, t) : r <= q
    IN  Slice(b, p + 3, UnitHi(b, p))

InitCache ==
    /\ platform = "linux"
    /\ encodeH264 = TRUE
    /\ MuxRest
    /\ EncInitFields
    /\ m_gopSize = 1
    /\ m_callback = TRUE
    /\ ObsInit
    /\ rf_in = <<>>
    /\ rf_pc = "feed"
    /\ PureRest
    /\ ShRest
    /\ MfRest
    /\ CapiRest

\* ConvertAnnexBToAVCC(annexB, size, isKeyframe) on the next buffer of the
\* session (the buffer is an argument, rf_in is not used); lastCall keeps the cache before the call, which parameter sets the
\* buffer held, and the last SPS / PPS payload of all buffers so far
Feed(annexB) ==
    /\ rf_pc = "feed"
    /\ nSubmit < MaxFeeds
    /\ nSubmit' = nSubmit + 1
    /\ LET isKeyframe == (m_frameCount % m_gopSize = 0)
             r == ConvertAnnexBToAVCC(annexB, isKeyframe,
                     [ sps |-> m_sps, pps |-> m_pps, have |-> m_haveSpsPs,
                       cbs |-> <<>>, cb |-> m_callback, seg |-> 0 ])
             hasSps == UnitsOfType(annexB, NAL_SPS) # {}
             hasPps == UnitsOfType(annexB, NAL_PPS) # {}
             first  == lastCall.op = "none"
         IN  /\ m_avccBuffer' = r.avcc
             /\ m_sps' = r.sps
             /\ m_pps' = r.pps
             /\ m_haveSpsPs' = r.have
             /\ lastCall' =
                  [ op |-> "ConvertAnnexBToAVCC",
                    pre |-> [ sps |-> m_sps, pps |-> m_pps, have |-> m_haveSpsPs ],
                    hasSps |-> hasSps,
                    hasPps |-> hasPps,
                    lastSps |-> IF hasSps THEN LastUnitOfType(annexB, NAL_SPS)
                                ELSE IF first THEN <<>> ELSE lastCall.lastSps,
                    lastPps |-> IF hasPps THEN LastUnitOfType(annexB, NAL_PPS)
                                ELSE IF first THEN <<>> ELSE lastCall.lastPps,
                    seenPps |-> hasPps \/ (~first /\ lastCall.seenPps) ]
    /\ UNCHANGED << m_gopSize, m_initialized, m_frameCount, m_surfaces,
                    m_currentSurface, m_refSurface, m_refSurfaceIndex,
                    m_callback, m_frameNumInGop, m_idrPicId,
                    surfGen, nOk, nKey, nLife, stopState, rfVars, pfVars, mfVars, capiVars, shVars, muxVars >>

NextCache == \E annexB \in CacheBuffers : Feed(annexB)

SpecCache == InitCache /\ [][NextCache]_vars

\* C11: after a buffer was reframed, m_sps is the payload of the last unit of
\* type 7 of all buffers so far and m_pps that of the last unit of type 8,
\* m_haveSpsPs holds exactly when a PPS was seen, and a buffer with no SPS
\* (PPS) unit leaves the cached SPS (PPS and the mark) as it was.
C11_CacheHoldsLastParameterSets ==
    lastCall.op = "ConvertAnnexBToAVCC" =>
        /\ m_sps = lastCall.lastSps
        /\ m_pps = lastCall.lastPps
        /\ m_haveSpsPs = lastCall.seenPps
        /\ ~lastCall.hasSps => m_sps = lastCall.pre.sps
        /\ ~lastCall.hasPps => (m_pps = lastCall.pre.pps
                                /\ m_haveSpsPs = lastCall.pre.have)

\* a third buffer replaced a cached SPS and left the cached PPS alone
C11_Witness ==
    /\ lastCall.op = "ConvertAnnexBToAVCC"
    /\ nSubmit = 3
    /\ lastCall.hasSps /\ ~lastCall.hasPps
    /\ lastCall.pre.sps # <<>> /\ m_sps # lastCall.pre.sps
    /\ m_pps # <<>> /\ m_pps = lastCall.pre.pps /\ m_haveSpsPs

----------------------------------------------------------------------------
(* The hardware behind the session: what vaMapBuffer of the coded buffer   *)
(* hands back is a list of segments, each an Annex-B byte buffer            *)

\* SPS, PPS and an IDR slice; a non-IDR slice; bytes without any start code
SegIdr == SC4 \o <<103, 66>> \o SC4 \o <<104>> \o SC3 \o <<101, 136>>
SegP == SC4 \o <<65, 154>>
SegJunk == <<9, 9>>

\* segment lists the driver may return (a segment of size 0 is skipped)
HwOutputs == { <<>>, <<SegIdr>>, <<SegP>>, <<SegJunk>>, <<SegIdr, SegP>>, << <<>>, SegP >> }

\* the coded buffer is read only when every step before it succeeded
HwOutputsAfter(fail) == IF fail = "none" THEN HwOutputs ELSE { <<>> }

\* the hardware steps of one EncodeNV12, in call order
FailPoints == { "none", "vaDeriveImage", "vaMapBuffer", "vaBeginPicture",
                "RenderPicture", "vaEndPicture", "vaSyncSurface",
                "vaMapBuffer(coded)" }

\* the steps of Initialize that can fail
InitOutcomes == { "ok", "OpenDrmDevice", "CreateConfig", "CreateSurfaces",
                  "CreateContext", "CreateCodedBuffer" }

\* the ids vaCreateSurfaces hands out on its g-th call
FreshSurfaces(g) == [ i \in 1..NUM_SURFACES |-> g * NUM_SURFACES + (i - 1) ]

----------------------------------------------------------------------------
(* VaapiEncoder *)

InitEnc ==
    /\ platform = "linux"
    /\ encodeH264 = TRUE
    /\ MuxRest
    /\ EncInitFields
    /\ m_gopSize \in 1..MaxGop
    /\ m_callback \in BOOLEAN
    /\ ObsInit
    /\ rf_in = <<>>
    /\ rf_pc = "off"
    /\ PureRest
    /\ ShRest
    /\ MfRest
    /\ CapiRest

\* Initialize(): every Create step in turn; a failure after OpenDrmDevice runs Cleanup
Initialize(outcome) ==
    /\ nLife < MaxLife
    /\ nLife' = nLife + 1
    /\ IF m_initialized
       THEN /\ lastCall' = [ op |-> "Initialize", ret |-> TRUE ]
            /\ UNCHANGED << m_initialized, m_surfaces, surfGen, stopState >>
       ELSE /\ lastCall' = [ op |-> "Initialize", ret |-> (outcome = "ok") ]
            /\ m_initialized' = (outcome = "ok")
            /\ m_surfaces' = IF outcome = "ok" THEN FreshSurfaces(surfGen)
                             ELSE IF outcome = "OpenDrmDevice" THEN m_surfaces
                             ELSE <<>>
            /\ surfGen' = IF outcome \in { "ok", "CreateContext", "CreateCodedBuffer" }
                          THEN surfGen + 1 ELSE surfGen
            /\ stopState' = IF outcome = "ok" /\ stopState = "stopped"
                            THEN "reopened" ELSE stopState
    /\ UNCHANGED << m_gopSize, m_frameCount, m_currentSurface, m_refSurface,
                    m_refSurfaceIndex, m_sps, m_pps, m_haveSpsPs, m_avccBuffer,
                    m_callback, m_frameNumInGop, m_idrPicId,
                    nSubmit, nOk, nKey, rfVars, pfVars, mfVars, capiVars, shVars, muxVars >>

\* mutant: Cleanup forgets "m_initialized = false"
Stop_KeepsInitialized ==
    /\ nLife < MaxLife
    /\ nLife' = nLife + 1
    /\ lastCall' = [ op |-> "Stop" ]
    /\ stopState' = "stopped"
    /\ UNCHANGED << encVars, surfGen, nSubmit, nOk, nKey, rfVars, pfVars, mfVars, capiVars, shVars, muxVars >>

\* Stop() = Cleanup(): releases the hardware objects, clears m_surfaces and
\* m_initialized; the counters and the reference are left as they are
Stop ==
    /\ nLife < MaxLife
    /\ nLife' = nLife + 1
    /\ m_surfaces' = <<>>
    /\ m_initialized' = FALSE
    /\ lastCall' = [ op |-> "Stop" ]
    /\ stopState' = "stopped"
    /\ UNCHANGED << m_gopSize, m_frameCount, m_currentSurface, m_refSurface,
                    m_refSurfaceIndex, m_sps, m_pps, m_haveSpsPs, m_avccBuffer,
                    m_callback, m_frameNumInGop, m_idrPicId,
                    surfGen, nSubmit, nOk, nKey, rfVars, pfVars, mfVars, capiVars, shVars, muxVars >>

\* mutant: the cadence is one frame late
IsKeyframe_OffByOne(count, gopSize) == (count + 1) % gopSize = 0

\* bool isKeyframe = (m_frameCount % m_gopSize == 0)
IsKeyframe(count, gopSize) == count % gopSize = 0

\* mutant: only the first frame of the session is an IDR
IsIdr_FirstFrameOnly(forceKeyframe, count) == count = 0

\* EncodeFrame: bool isIdr = forceKeyframe || (m_frameCount == 0)
IsIdr(forceKeyframe, count) == forceKeyframe \/ count = 0

\* RenderPicture: ReferenceFrames[0] of the picture parameter buffer. The
\* struct is zero-initialised; entry 0 is written for a P-frame with a
\* retained reference and marked invalid for an IDR.
ReferenceFrame0(isIdr, refSurface) ==
    IF isIdr THEN [ picture_id |-> VA_INVALID_SURFACE, invalid |-> TRUE ]
    ELSE IF refSurface # VA_INVALID_SURFACE
         THEN [ picture_id |-> refSurface, invalid |-> FALSE ]
         ELSE [ picture_id |-> 0, invalid |-> FALSE ]

\* RenderPicture: picParam.frame_num = isIdr ? 0 : m_frameNumInGop
FrameNum(isIdr, frameNumInGop) == IF isIdr THEN 0 ELSE frameNumInGop

\* bufferSegment = bufferSegment->next: st.seg is the position in the list
NextSegment(st) == [ st EXCEPT !.seg = st.seg + 1 ]

\* mutant: the segment list is walked from its last element to its first
RECURSIVE ProcessSegments_Backwards(_, _, _)
ProcessSegments_Backwards(segs, isKeyframe, st) ==
    IF segs = <<>> THEN st
    ELSE LET last == segs[Len(segs)]
             at   == [ st EXCEPT !.seg = Len(segs) - 1 ]
         IN  ProcessSegments_Backwards(SubSeq(segs, 1, Len(segs) - 1), isKeyframe,
                IF Len(last) > 0 THEN ConvertAnnexBToAVCC(last, isKeyframe, at)
                ELSE at)

\* GetEncodedData: every segment with a buffer and size > 0 goes through the
\* reframer, in list order
RECURSIVE ProcessSegments(_, _, _)
ProcessSegments(segs, isKeyframe, st) ==
    IF segs = <<>> THEN st
    ELSE ProcessSegments(Tail(segs), isKeyframe,
            NextSegment(IF Len(Head(segs)) > 0
                        THEN ConvertAnnexBToAVCC(Head(segs), isKeyframe, st)
                        ELSE st))

\* GetEncodedData(isKeyframe): nothing happens when the coded buffer cannot be mapped
GetEncodedData(fail, segs, isKeyframe, st) ==
    IF fail = "vaMapBuffer(coded)" THEN st
    ELSE ProcessSegments(segs, isKeyframe, st)

\* mutant: the IDR id is not advanced on a keyframe
NextIdrPicId_Stuck(isKeyframe, idrPicId) == idrPicId

\* "if (isKeyframe) { ...; m_idrPicId++; }"
NextIdrPicId(isKeyframe, idrPicId) == IF isKeyframe THEN idrPicId + 1 ELSE idrPicId

\* "m_frameNumInGop++; if (isKeyframe) m_frameNumInGop = 0;"
NextFrameNumInGop(isKeyframe, frameNumInGop) ==
    IF isKeyframe THEN 0 ELSE frameNumInGop + 1

\* mutant: the slot recorded as the reference is the one after the frame's
RetainedIndex_Next(current) == (current + 1) % NUM_SURFACES

\* "m_refSurfaceIndex = m_currentSurface" (before the index is advanced)
RetainedIndex(current) == current

\* mutant: the slot index is never advanced
NextSurface_Stuck(current) == current

\* "m_currentSurface = (m_currentSurface + 1) % NUM_SURFACES"
NextSurface(current) == (current + 1) % NUM_SURFACES

\* which hardware failures make EncodeNV12 return false
ReturnsFalse(fail) == fail \in { "vaDeriveImage", "vaMapBuffer", "vaBeginPicture",
                                "RenderPicture", "vaEndPicture", "vaSyncSurface" }

\* EncodeNV12(nv12Data, size, timestampMs) with the hardware failing at 'fail'
\* (or not at all) and returning 'segs' in the coded buffer
EncodeNV12(fail, segs) ==
    /\ nSubmit < MaxSubmits
    /\ nSubmit' = nSubmit + 1
    /\ IF ~m_initialized
       THEN /\ lastCall' = [ op |-> "EncodeNV12", k |-> nSubmit, ret |-> FALSE,
                             fail |-> "not initialized", cbs |-> <<>> ]
            /\ UNCHANGED << m_frameCount, m_currentSurface, m_refSurface,
                            m_refSurfaceIndex, m_sps, m_pps, m_haveSpsPs,
                            m_avccBuffer, m_frameNumInGop, m_idrPicId,
                            nOk, nKey >>
       ELSE IF ReturnsFalse(fail)
       THEN /\ lastCall' = [ op |-> "EncodeNV12", k |-> nSubmit, ret |-> FALSE,
                             fail |-> fail, cbs |-> <<>> ]
            /\ UNCHANGED << m_frameCount, m_currentSurface, m_refSurface,
                            m_refSurfaceIndex, m_sps, m_pps, m_haveSpsPs,
                            m_avccBuffer, m_frameNumInGop, m_idrPicId,
                            nOk, nKey >>
       ELSE LET surface    == m_surfaces[m_currentSurface + 1]
                isKeyframe == IsKeyframe(m_frameCount, m_gopSize)
                isIdr      == IsIdr(isKeyframe, m_frameCount)
                r == GetEncodedData(fail, segs, isKeyframe,
                        [ avcc |-> m_avccBuffer, sps |-> m_sps, pps |-> m_pps,
                          have |-> m_haveSpsPs, cbs |-> <<>>, cb |-> m_callback,
                          seg |-> 0 ])
            IN  /\ lastCall' = [ op |-> "EncodeNV12", k |-> nSubmit, ret |-> TRUE,
                                 fail |-> fail, cbs |-> r.cbs,
                                 isKeyframe |-> isKeyframe, isIdr |-> isIdr,
                                 surface |-> surface, slot |-> m_currentSurface,
                                 ref |-> ReferenceFrame0(isIdr, m_refSurface),
                                 frame_num |-> FrameNum(isIdr, m_frameNumInGop),
                                 pre |-> [ frameCount |-> m_frameCount,
                                           frameNumInGop |-> m_frameNumInGop,
                                           idrPicId |-> m_idrPicId ] ]
                /\ m_avccBuffer' = r.avcc
                /\ m_sps' = r.sps
                /\ m_pps' = r.pps
                /\ m_haveSpsPs' = r.have
                /\ m_refSurfaceIndex' = RetainedIndex(m_currentSurface)
                /\ m_refSurface' = surface
                /\ m_currentSurface' = NextSurface(m_currentSurface)
                /\ m_frameCount' = m_frameCount + 1
                /\ m_frameNumInGop' = NextFrameNumInGop(isKeyframe, m_frameNumInGop)
                /\ m_idrPicId' = NextIdrPicId(isKeyframe, m_idrPicId)
                /\ nOk' = nOk + 1
                /\ nKey' = IF isKeyframe THEN nKey + 1 ELSE nKey
    /\ UNCHANGED << m_gopSize, m_initialized, m_surfaces, m_callback,
                    surfGen, nLife, stopState, rfVars, pfVars, mfVars, capiVars, shVars, muxVars >>

NextEnc ==
    \/ \E outcome \in InitOutcomes : Initialize(outcome)
    \/ \E fail \in FailPoints :
          \E segs \in HwOutputsAfter(fail) : EncodeNV12(fail, segs)
    \/ Stop

SpecEnc == InitEnc /\ [][NextEnc]_vars

----------------------------------------------------------------------------
(* Claims about the encoder session (checked under SpecEnc) *)

Submitted == lastCall.op = "EncodeNV12"

\* C1: on a session where every EncodeNV12 call so far succeeded, the k-th
\* submitted frame (k = 0, 1, ...) is requested from the hardware as an IDR and
\* reported to every callback invocation it makes as a keyframe exactly when
\* k mod gopSize = 0, and as a P-frame otherwise.
C1_GopCadence ==
    (Submitted /\ nOk = nSubmit) =>
        LET key == (lastCall.k % m_gopSize = 0)
        IN  /\ lastCall.isIdr = key
            /\ lastCall.isKeyframe = key
            /\ \A i \in 1..Len(lastCall.cbs) : lastCall.cbs[i].key = key

\* the last of 3G submissions with G = 3: index 8, a P-frame reported to the
\* callback, with keyframes counted at 0, 3 and 6 only
C1_Witness ==
    /\ Submitted /\ m_gopSize = 3 /\ nSubmit = 9 /\ nOk = 9
    /\ lastCall.k = 8 /\ nKey = 3
    /\ Len(lastCall.cbs) = 1 /\ ~lastCall.cbs[1].key

\* C2 (as claimed): an EncodeNV12 in which a hardware step fails returns
\* failure and leaves the GopState counters, the reference slot and the slot
\* index as they were.
C2_HardwareFailureLeavesState ==
    [][ (nSubmit' = nSubmit + 1 /\ lastCall'.fail \in FailPoints \ { "none" })
        => /\ lastCall'.ret = FALSE
           /\ UNCHANGED << m_frameCount, m_frameNumInGop, m_idrPicId,
                           m_refSurface, m_refSurfaceIndex, m_currentSurface,
                           m_initialized >> ]_vars

\* C7 (as claimed): once Stop() has been called, every later EncodeNV12
\* returns failure, whatever was called in between.
C7_SubmitFailsAfterAnyStop ==
    (Submitted /\ stopState \in { "stopped", "reopened" }) => ~lastCall.ret

\* C7 (amended): from a Stop() until the next Initialize() that succeeds,
\* every EncodeNV12 returns failure.
C7_SubmitFailsWhileStopped ==
    (Submitted /\ stopState = "stopped") => ~lastCall.ret

\* a frame is submitted to a session that encoded frames and was then stopped
C7_Witness ==
    /\ Submitted /\ stopState = "stopped" /\ nOk > 0 /\ ~lastCall.ret

\* C8: the IDR id equals the number of keyframes encoded so far; a successful
\* frame increments the frame counter and the in-GOP counter once, an IDR then
\* resets the in-GOP counter to 0 and increments the IDR id; a failed call
\* changes none of them; 10 successful submissions with gopSize 4 make 3
\* keyframes (indices 0, 4, 8) and 7 delta frames.
C8_IdrIdCountsKeyframes ==
    /\ m_idrPicId = nKey
    /\ m_frameCount = nOk
    /\ (Submitted /\ lastCall.ret) =>
          /\ m_frameCount = lastCall.pre.frameCount + 1
          /\ m_frameNumInGop = IF lastCall.isKeyframe THEN 0
                               ELSE lastCall.pre.frameNumInGop + 1
          /\ m_idrPicId = IF lastCall.isKeyframe THEN lastCall.pre.idrPicId + 1
                          ELSE lastCall.pre.idrPicId
    /\ (m_gopSize = 4 /\ nSubmit = nOk) =>
          /\ Submitted => (lastCall.isKeyframe <=> lastCall.k \in { 0, 4, 8, 12 })
          /\ nOk = 10 => (m_idrPicId = 3 /\ nOk - nKey = 7)

\* the 10th successful submission of a gopSize-4 session
C8_Witness ==
    /\ Submitted /\ m_gopSize = 4 /\ nSubmit = 10 /\ nOk = 10
    /\ m_idrPicId = 3 /\ ~lastCall.isKeyframe

\* an EncodeNV12 call got as far as asking the hardware for a picture and
\* returned true
Encoded == Submitted /\ lastCall.ret

OwnSurfaces == { m_surfaces[i] : i \in 1..Len(m_surfaces) }

\* an EncodeNV12 step that returns true
EncodeStep == nSubmit' = nSubmit + 1 /\ lastCall'.ret

\* C34: whenever a reference frame is retained, the slot the next Submit
\* overwrites is not the slot that holds it, whatever failed submissions came
\* in between, and a failed Submit moves neither.
C34_NextSlotIsNotReference ==
    /\ [](m_refSurface # VA_INVALID_SURFACE => m_currentSurface # m_refSurfaceIndex)
    /\ [][(nSubmit' = nSubmit + 1 /\ ~lastCall'.ret)
            => UNCHANGED << m_currentSurface, m_refSurfaceIndex, m_refSurface >>]_vars

\* after four frames the index has wrapped: the reference is in slot 3, the
\* next frame goes to slot 0, and a submission has just failed
C34_Witness ==
    /\ Submitted
    /\ ~lastCall.ret
    /\ m_initialized
    /\ nOk = 4
    /\ m_refSurfaceIndex = 3
    /\ m_currentSurface = 0

\* C35: the first frame encoded after a successful Initialize(), the
\* session holding no frame in any of its surfaces yet, is an IDR that
\* references no earlier frame; also when the session was stopped after
\* having encoded frames and is initialized again.
C35_FirstFrameAfterInitializeIsIdr ==
    [][ (EncodeStep /\ m_refSurface \notin OwnSurfaces)
          => (lastCall'.isIdr /\ lastCall'.ref.invalid) ]_vars

\* C40: the frame number passed to the hardware is the frame's 0-based
\* position in its GOP: 0 for the IDR, then 1, 2, 3, ... for the P-frames
\* that follow.
C40_FrameNumIsGopPosition ==
    Encoded => lastCall.frame_num = lastCall.pre.frameCount % m_gopSize

\* C28: the frame-buffer slots are used round-robin over NUM_SURFACES = 4
\* slots: the n-th successfully encoded frame of a session (n = 0, 1, ...)
\* is uploaded into slot n mod 4, which names a surface of the session, and
\* a failed Submit does not advance the slot index.
C28_RoundRobinSlots ==
    /\ [](Encoded =>
            /\ lastCall.slot = (nOk - 1) % NUM_SURFACES
            /\ lastCall.slot = lastCall.pre.frameCount % NUM_SURFACES
            /\ lastCall.surface = m_surfaces[lastCall.slot + 1])
    /\ [](m_currentSurface = nOk % NUM_SURFACES)
    /\ [][(nSubmit' # nSubmit /\ ~lastCall'.ret)
            => m_currentSurface' = m_currentSurface]_vars
    /\ [][(nSubmit' # nSubmit /\ lastCall'.ret)
            => m_currentSurface' = (m_currentSurface + 1) % NUM_SURFACES]_vars

\* the sixth frame went into slot 1 after a failed Submit in between, the
\* index having wrapped
C28_Witness ==
    /\ Encoded
    /\ nOk = 6
    /\ nSubmit > nOk
    /\ lastCall.slot = 1
    /\ m_currentSurface = 2


\* C23: a P-frame request carries one valid reference entry, the surface
\* written by the most recent successful submission, which is a surface of
\* the session; an IDR request carries no valid reference entry; no P-frame
\* is requested while the retained reference is invalid.  The retained
\* reference is the surface of the last successful submission and changes in
\* a successful submission only.
C23_SingleValidReference ==
    /\ [](Encoded => m_refSurface = lastCall.surface /\ m_refSurfaceIndex = lastCall.slot)
    /\ [][ m_refSurface' # m_refSurface => (nSubmit' = nSubmit + 1 /\ lastCall'.ret) ]_vars
    /\ [][ (nSubmit' = nSubmit + 1 /\ lastCall'.ret) =>
             IF lastCall'.isIdr
             THEN lastCall'.ref.invalid
             ELSE /\ m_refSurface # VA_INVALID_SURFACE
                  /\ lastCall'.ref = [ picture_id |-> m_refSurface, invalid |-> FALSE ]
                  /\ m_refSurface \in OwnSurfaces ]_vars

\* the NAL types of the units of a length-prefixed (AVCC) buffer, read back as
\* a consumer does: 4-byte big-endian length, then that many bytes
RECURSIVE AvccTypes(_)
AvccTypes(data) ==
    IF Len(data) < 5 THEN {}
    ELSE LET n == ((data[1] * 256 + data[2]) * 256 + data[3]) * 256 + data[4]
         IN  { NalType(data[5]) } \cup AvccTypes(SubSeq(data, 5 + n, Len(data)))

\* C12: the keyframe flag handed to the callback is true exactly when the
\* buffer handed over holds a unit of NAL type 5 (IDR slice), whatever bytes
\* the encoder returned.
C12_KeyframeFlagIffIdrUnit ==
    (Submitted /\ lastCall.ret) =>
        \A i \in DOMAIN lastCall.cbs :
            lastCall.cbs[i].key <=> (5 \in AvccTypes(lastCall.cbs[i].data))

----------------------------------------------------------------------------
(* Capture(): the video capture thread (frameCallback, the encoder's output *)
(* callback), the audio capture thread (audioCallback), the signal handler  *)
(* and the consumer closing its end of a pipe. Bytes on a channel are kept  *)
(* as chunks [u, lo, hi): bytes lo .. hi-1 of unit u.                        *)

LogUnit == [ src |-> "log", sub |-> 0, seg |-> 0, n |-> 0 ]

\* the stream after write() accepted bytes lo .. hi-1 of unit u; a chunk that
\* continues the previous one is joined to it, adjacent log text is one chunk
AppendChunk(st, u, lo, hi) ==
    IF st # <<>> /\ st[Len(st)].u = u /\ (u.src = "log" \/ st[Len(st)].hi = lo)
    THEN [ st EXCEPT ![Len(st)].hi = IF u.src = "log" THEN @ ELSE hi ]
    ELSE Append(st, [ u |-> u, lo |-> lo, hi |-> hi ])

\* std::cerr << text: reaches stderr while its receiving end is open
LogTo(streams, open) ==
    IF open["stderr"]
    THEN [ streams EXCEPT !["stderr"] = AppendChunk(@, LogUnit, 0, 1) ]
    ELSE streams

\* write() on a closed pipe raises SIGPIPE (Linux), whose handler clears g_running
RunningAfterWrite(running, ch) ==
    IF platform = "linux" /\ ~chanOpen[ch] THEN FALSE ELSE running

\* how many of 'rem' requested bytes one write() may accept
Accepts(rem) == { rem } \cup { n \in { rem \div 2 } : n >= 1 }

\* "count <= 5 || count % 100 == 0"
LogDue(count) == count <= 5 \/ count % 100 = 0

InitMux ==
    /\ platform \in { "linux", "windows" }
    \* the Windows encoder session is another class; its thread model runs raw video
    /\ encodeH264 \in (IF platform = "linux" THEN BOOLEAN ELSE { FALSE })
    /\ MuxRest
    /\ m_gopSize = 2
    /\ m_callback = encodeH264
    /\ m_initialized = encodeH264
    /\ m_surfaces = IF encodeH264 THEN FreshSurfaces(0) ELSE <<>>
    /\ m_frameCount = 0
    /\ m_currentSurface = 0
    /\ m_refSurface = VA_INVALID_SURFACE
    /\ m_refSurfaceIndex = 0
    /\ m_sps = <<>>
    /\ m_pps = <<>>
    /\ m_haveSpsPs = FALSE
    /\ m_avccBuffer = <<>>
    /\ m_frameNumInGop = 0
    /\ m_idrPicId = 0
    /\ surfGen = IF encodeH264 THEN 1 ELSE 0
    /\ lastCall = NoCall
    /\ nSubmit = 0
    /\ nOk = 0
    /\ nKey = 0
    /\ nLife = 0
    /\ stopState = "open"
    /\ rf_in = <<>>
    /\ rf_pc = "off"
    /\ PureRest
    /\ ShRest
    /\ MfRest
    /\ CapiRest

\* where the video thread continues when an output callback has returned
AfterCallback(queue) == IF queue = <<>> THEN "finish" ELSE "cb"

\* frameCallback(data, size, timestamp) up to the first write: the running
\* check, frameCount++, then EncodeNV12 as far as the reframed output of every
\* segment (encode mode) or the raw frame itself
V_FrameCallback(fail, segs) ==
    /\ vpc = "idle"
    /\ vCalls < MaxFrames
    /\ vCalls' = vCalls + 1
    /\ IF ~g_running
       THEN UNCHANGED << encVars, frameCount, vpc, vq, vcur >>
       ELSE /\ frameCount' = frameCount + 1
            /\ IF ~encodeH264
               THEN /\ vpc' = "rawwrite"
                    /\ vcur' = [ u |-> [ src |-> "video", sub |-> frameCount,
                                         seg |-> 0, n |-> frameCount ],
                                 size |-> RawFrameBytes, written |-> 0,
                                 short |-> FALSE, err |-> FALSE ]
                    /\ UNCHANGED << encVars, vq >>
               ELSE IF ~m_initialized \/ ReturnsFalse(fail)
               THEN /\ vpc' = "warn"
                    /\ UNCHANGED << encVars, vq, vcur >>
               ELSE LET isKeyframe == IsKeyframe(m_frameCount, m_gopSize)
                        r == GetEncodedData(fail, segs, isKeyframe,
                                [ avcc |-> m_avccBuffer, sps |-> m_sps,
                                  pps |-> m_pps, have |-> m_haveSpsPs,
                                  cbs |-> <<>>, cb |-> m_callback, seg |-> 0 ])
                    IN  /\ m_avccBuffer' = r.avcc
                        /\ m_sps' = r.sps
                        /\ m_pps' = r.pps
                        /\ m_haveSpsPs' = r.have
                        /\ vq' = [ i \in 1..Len(r.cbs) |->
                                     [ sub |-> m_frameCount, seg |-> r.cbs[i].seg,
                                       size |-> Len(r.cbs[i].data) ] ]
                        /\ vpc' = AfterCallback(vq')
                        /\ UNCHANGED << m_gopSize, m_initialized, m_frameCount,
                                        m_surfaces, m_currentSurface, m_refSurface,
                                        m_refSurfaceIndex, m_callback,
                                        m_frameNumInGop, m_idrPicId, vcur >>
    /\ UNCHANGED << obsVars, rfVars, pfVars, mfVars, capiVars, shVars, platform, encodeH264, g_running,
                    g_stderrMutex, encodedFrameCount, audioPacketCount, chanOpen,
                    stream, apc, acur, aCalls, nCb, lastDone, wrFailed,
                    wrAfterFail, reports, sigSent >>

\* "Warning - Failed to encode frame" (frameCount <= 5), frameCallback returns
V_Warn ==
    /\ vpc = "warn"
    /\ vpc' = "idle"
    /\ stream' = IF frameCount <= 5 THEN LogTo(stream, chanOpen) ELSE stream
    /\ g_running' = IF frameCount <= 5 THEN RunningAfterWrite(g_running, "stderr")
                    ELSE g_running
    /\ UNCHANGED << encVars, obsVars, rfVars, pfVars, mfVars, capiVars, shVars, platform, encodeH264,
                    g_stderrMutex, frameCount, encodedFrameCount,
                    audioPacketCount, chanOpen, vq, vcur, vCalls, apc, acur,
                    aCalls, nCb, lastDone, wrFailed, wrAfterFail, reports, sigSent >>

\* the encoder's output callback is invoked: "if (!g_running) return;"
V_CallbackEnter ==
    /\ vpc = "cb"
    /\ nCb' = nCb + 1
    /\ LET u == [ src |-> "video", sub |-> Head(vq).sub, seg |-> Head(vq).seg,
                  n |-> nCb ]
       IN  IF ~g_running
           THEN /\ lastDone' = [ lastDone EXCEPT !["video"] =
                                   [ u |-> u, size |-> Head(vq).size,
                                     short |-> FALSE, err |-> FALSE,
                                     running |-> FALSE ] ]
                /\ vq' = Tail(vq)
                /\ vpc' = AfterCallback(vq')
                /\ UNCHANGED vcur
           ELSE /\ vcur' = [ u |-> u, size |-> Head(vq).size, written |-> 0,
                             short |-> FALSE, err |-> FALSE ]
                /\ vpc' = "write"
                /\ UNCHANGED << vq, lastDone >>
    /\ UNCHANGED << encVars, obsVars, rfVars, pfVars, mfVars, capiVars, shVars, platform, encodeH264, g_running,
                    g_stderrMutex, frameCount, encodedFrameCount,
                    audioPacketCount, chanOpen, stream, vCalls, apc, acur,
                    aCalls, wrFailed, wrAfterFail, reports, sigSent >>

\* what one thread's record of a finished write looks like
Done(cur, err, running) ==
    [ u |-> cur.u, size |-> cur.size, short |-> cur.short, err |-> err,
      running |-> running ]

\* one turn of "while (written < size && g_running)" on stdout, in the encoder
\* callback (vpc = "write") or in frameCallback's raw path (vpc = "rawwrite"),
\* with what follows the loop when it ends
V_Write ==
    /\ vpc \in { "write", "rawwrite" }
    /\ LET next == IF vpc = "rawwrite" THEN "idle" ELSE AfterCallback(Tail(vq))
           rest == IF vpc = "rawwrite" THEN vq ELSE Tail(vq)
       IN
       IF vcur.written < vcur.size /\ g_running
       THEN IF ~chanOpen["stdout"]
            THEN \* result < 0: report, g_running = false, return
                 /\ stream' = LogTo(stream, chanOpen)
                 /\ reports' = [ reports EXCEPT !["stdout"] = @ + 1 ]
                 /\ g_running' = FALSE
                 /\ wrFailed' = [ wrFailed EXCEPT !["stdout"] = TRUE ]
                 /\ wrAfterFail' = [ wrAfterFail EXCEPT !["stdout"] =
                                       @ \/ wrFailed["stdout"] ]
                 /\ lastDone' = [ lastDone EXCEPT !["video"] =
                                    Done(vcur, TRUE, FALSE) ]
                 /\ vcur' = NoWrite
                 /\ vq' = rest
                 /\ vpc' = next
                 /\ UNCHANGED << encodedFrameCount >>
            ELSE \E n \in Accepts(vcur.size - vcur.written) :
                 /\ stream' = [ stream EXCEPT !["stdout"] =
                                  AppendChunk(@, vcur.u, vcur.written,
                                              vcur.written + n) ]
                 /\ vcur' = [ vcur EXCEPT !.written = @ + n,
                                          !.short = @ \/ (n < vcur.size - vcur.written) ]
                 /\ wrAfterFail' = [ wrAfterFail EXCEPT !["stdout"] =
                                       @ \/ wrFailed["stdout"] ]
                 /\ UNCHANGED << reports, g_running, wrFailed, lastDone, vq, vpc,
                                 encodedFrameCount >>
       ELSE \* the loop has ended: count the frame, log it, return
            /\ encodedFrameCount' = IF vpc = "write" THEN encodedFrameCount + 1
                                    ELSE encodedFrameCount
            /\ LET count == IF vpc = "write" THEN encodedFrameCount + 1
                            ELSE frameCount
               IN  /\ stream' = IF LogDue(count) THEN LogTo(stream, chanOpen)
                                ELSE stream
                   /\ g_running' = IF LogDue(count)
                                   THEN RunningAfterWrite(g_running, "stderr")
                                   ELSE g_running
            /\ lastDone' = [ lastDone EXCEPT !["video"] =
                               Done(vcur, FALSE, g_running) ]
            /\ vcur' = NoWrite
            /\ vq' = rest
            /\ vpc' = next
            /\ UNCHANGED << reports, wrFailed, wrAfterFail >>
    /\ UNCHANGED << encVars, obsVars, rfVars, pfVars, mfVars, capiVars, shVars, platform, encodeH264,
                    g_stderrMutex, frameCount, audioPacketCount, chanOpen,
                    vCalls, apc, acur, aCalls, nCb, sigSent >>

\* EncodeNV12 after GetEncodedData: "Update state", return true
V_Finish ==
    /\ vpc = "finish"
    /\ vpc' = "idle"
    /\ LET isKeyframe == IsKeyframe(m_frameCount, m_gopSize)
       IN  /\ m_refSurfaceIndex' = m_currentSurface
           /\ m_refSurface' = m_surfaces[m_currentSurface + 1]
           /\ m_currentSurface' = (m_currentSurface + 1) % NUM_SURFACES
           /\ m_frameCount' = m_frameCount + 1
           /\ m_frameNumInGop' = NextFrameNumInGop(isKeyframe, m_frameNumInGop)
           /\ m_idrPicId' = NextIdrPicId(isKeyframe, m_idrPicId)
    /\ UNCHANGED << m_gopSize, m_initialized, m_surfaces, m_sps, m_pps,
                    m_haveSpsPs, m_avccBuffer, m_callback, obsVars, rfVars, pfVars, mfVars, capiVars, shVars,
                    platform, encodeH264, g_running, g_stderrMutex, frameCount,
                    encodedFrameCount, audioPacketCount, chanOpen, stream,
                    vq, vcur, vCalls, apc, acur, aCalls, nCb, lastDone,
                    wrFailed, wrAfterFail, reports, sigSent >>

\* audioCallback(data, sampleCount, timestamp) on entry: the running check and
\* the header; on Linux the lock on g_stderrMutex is taken, on Windows the
\* capturer hands over one buffer holding header and samples
A_Callback(sampleCount) ==
    /\ apc = "idle"
    /\ aCalls < MaxPackets
    /\ aCalls' = aCalls + 1
    /\ IF ~g_running
       THEN UNCHANGED << apc, acur, g_stderrMutex >>
       ELSE /\ acur' = [ u |-> [ src |-> "audio", sub |-> aCalls, seg |-> 0,
                                 n |-> aCalls ],
                         size |-> AUDIO_HEADER_SIZE + sampleCount * BYTES_PER_SAMPLE,
                         written |-> 0, short |-> FALSE, err |-> FALSE ]
            /\ IF platform = "linux"
               THEN /\ g_stderrMutex = "free"
                    /\ g_stderrMutex' = "audio"
                    /\ apc' = "header"
               ELSE /\ apc' = "loop"
                    /\ UNCHANGED g_stderrMutex
    /\ UNCHANGED << encVars, obsVars, rfVars, pfVars, mfVars, capiVars, shVars, platform, encodeH264, g_running,
                    frameCount, encodedFrameCount, audioPacketCount, chanOpen,
                    stream, vpc, vq, vcur, vCalls, nCb, lastDone, wrFailed,
                    wrAfterFail, reports, sigSent >>

\* one write(STDERR_FILENO, buf, len) whose result the caller does not look at:
\* bytes lo .. lo+len-1 of the packet are offered once
A_BlindWrite(lo, len, n) ==
    /\ wrAfterFail' = [ wrAfterFail EXCEPT !["stderr"] = @ \/ wrFailed["stderr"] ]
    /\ IF ~chanOpen["stderr"]
       THEN /\ wrFailed' = [ wrFailed EXCEPT !["stderr"] = TRUE ]
            /\ acur' = [ acur EXCEPT !.err = TRUE ]
            /\ UNCHANGED stream
       ELSE /\ n \in Accepts(len)
            /\ stream' = [ stream EXCEPT !["stderr"] =
                             AppendChunk(@, acur.u, lo, lo + n) ]
            /\ acur' = [ acur EXCEPT !.written = @ + n,
                                     !.short = @ \/ (n < len) ]
            /\ UNCHANGED wrFailed

\* Linux: write(STDERR_FILENO, &header, sizeof(header))
A_WriteHeader ==
    /\ apc = "header"
    /\ \E n \in 1..AUDIO_HEADER_SIZE : A_BlindWrite(0, AUDIO_HEADER_SIZE, n)
    /\ g_running' = RunningAfterWrite(g_running, "stderr")
    /\ apc' = "payload"
    /\ UNCHANGED << encVars, obsVars, rfVars, pfVars, mfVars, capiVars, shVars, platform, encodeH264,
                    g_stderrMutex, frameCount, encodedFrameCount,
                    audioPacketCount, chanOpen, vpc, vq, vcur, vCalls, aCalls,
                    nCb, lastDone, reports, sigSent >>

\* Linux: write(STDERR_FILENO, data, sampleCount * 4), the lock is released,
\* audioPacketCount++ and the "Audio packet" log line, audioCallback returns
A_WritePayload ==
    /\ apc = "payload"
    /\ \E n \in 1..(acur.size - AUDIO_HEADER_SIZE) :
          A_BlindWrite(AUDIO_HEADER_SIZE, acur.size - AUDIO_HEADER_SIZE, n)
    /\ g_stderrMutex' = "free"
    /\ audioPacketCount' = audioPacketCount + 1
    /\ apc' = "log"
    /\ g_running' = RunningAfterWrite(g_running, "stderr")
    /\ UNCHANGED << encVars, obsVars, rfVars, pfVars, mfVars, capiVars, shVars, platform, encodeH264,
                    frameCount, encodedFrameCount, chanOpen, vpc, vq, vcur,
                    vCalls, aCalls, nCb, lastDone, reports, sigSent >>

\* Linux: the "Audio packet" log line (audioPacketCount <= 5 or every 100th)
A_Log ==
    /\ apc = "log"
    /\ apc' = "idle"
    /\ stream' = IF LogDue(audioPacketCount) THEN LogTo(stream, chanOpen) ELSE stream
    /\ g_running' = IF LogDue(audioPacketCount)
                    THEN RunningAfterWrite(g_running, "stderr") ELSE g_running
    /\ lastDone' = [ lastDone EXCEPT !["audio"] = Done(acur, acur.err, g_running) ]
    /\ acur' = NoWrite
    /\ UNCHANGED << encVars, obsVars, rfVars, pfVars, mfVars, capiVars, shVars, platform, encodeH264,
                    g_stderrMutex, frameCount, encodedFrameCount,
                    audioPacketCount, chanOpen, vpc, vq, vcur, vCalls, aCalls,
                    nCb, wrFailed, wrAfterFail, reports, sigSent >>

\* Windows: one turn of "while (written < size && g_running)" on stderr, with
\* what follows the loop when it ends
A_WriteLoop ==
    /\ apc = "loop"
    /\ IF acur.written < acur.size /\ g_running
       THEN /\ wrAfterFail' = [ wrAfterFail EXCEPT !["stderr"] =
                                  @ \/ wrFailed["stderr"] ]
            /\ IF ~chanOpen["stderr"]
               THEN \* result < 0: g_running = false, return
                    /\ g_running' = FALSE
                    /\ wrFailed' = [ wrFailed EXCEPT !["stderr"] = TRUE ]
                    /\ lastDone' = [ lastDone EXCEPT !["audio"] =
                                       Done(acur, TRUE, FALSE) ]
                    /\ acur' = NoWrite
                    /\ apc' = "idle"
                    /\ UNCHANGED << stream, audioPacketCount >>
               ELSE \E n \in Accepts(acur.size - acur.written) :
                    /\ stream' = [ stream EXCEPT !["stderr"] =
                                     AppendChunk(@, acur.u, acur.written,
                                                 acur.written + n) ]
                    /\ acur' = [ acur EXCEPT !.written = @ + n,
                                             !.short = @ \/ (n < acur.size - acur.written) ]
                    /\ UNCHANGED << g_running, wrFailed, lastDone, apc,
                                    audioPacketCount >>
       ELSE /\ audioPacketCount' = audioPacketCount + 1
            /\ lastDone' = [ lastDone EXCEPT !["audio"] =
                               Done(acur, FALSE, g_running) ]
            /\ acur' = NoWrite
            /\ apc' = "idle"
            /\ UNCHANGED << stream, g_running, wrFailed, wrAfterFail >>
    /\ UNCHANGED << encVars, obsVars, rfVars, pfVars, mfVars, capiVars, shVars, platform, encodeH264,
                    g_stderrMutex, frameCount, encodedFrameCount, chanOpen,
                    vpc, vq, vcur, vCalls, aCalls, nCb, reports, sigSent >>

\* SignalHandler / ConsoleHandler: "Received shutdown signal", g_running = false
Signal ==
    /\ ~sigSent
    /\ sigSent' = TRUE
    /\ stream' = LogTo(stream, chanOpen)
    /\ g_running' = FALSE
    /\ UNCHANGED << encVars, obsVars, rfVars, pfVars, mfVars, capiVars, shVars, platform, encodeH264,
                    g_stderrMutex, frameCount, encodedFrameCount,
                    audioPacketCount, chanOpen, vpc, vq, vcur, vCalls, apc,
                    acur, aCalls, nCb, lastDone, wrFailed, wrAfterFail, reports >>

\* the consumer closes its end of a pipe
ClosePipe(ch) ==
    /\ chanOpen[ch]
    /\ chanOpen' = [ chanOpen EXCEPT ![ch] = FALSE ]
    /\ UNCHANGED << encVars, obsVars, rfVars, pfVars, mfVars, capiVars, shVars, platform, encodeH264, g_running,
                    g_stderrMutex, frameCount, encodedFrameCount,
                    audioPacketCount, stream, vpc, vq, vcur, vCalls, apc, acur,
                    aCalls, nCb, lastDone, wrFailed, wrAfterFail, reports,
                    sigSent >>

NextMux ==
    \/ \E fail \in FailPoints :
          \E segs \in HwOutputsAfter(fail) : V_FrameCallback(fail, segs)
    \/ V_Warn
    \/ V_CallbackEnter
    \/ V_Write
    \/ V_Finish
    \/ \E sampleCount \in 1..MaxSamples : A_Callback(sampleCount)
    \/ A_WriteHeader
    \/ A_WritePayload
    \/ A_Log
    \/ A_WriteLoop
    \/ Signal
    \/ \E ch \in Channels : ClosePipe(ch)

SpecMux == InitMux /\ [][NextMux]_vars

----------------------------------------------------------------------------
(* Claims about the channels *)

\* the channel a thread writes its frames or packets to
ChannelOf(t) == IF t = "video" THEN "stdout" ELSE "stderr"

\* how many bytes of unit u the chunks of st hold
RECURSIVE BytesOf(_, _)
BytesOf(st, u) ==
    IF st = <<>> THEN 0
    ELSE (IF Head(st).u = u THEN Head(st).hi - Head(st).lo ELSE 0)
         + BytesOf(Tail(st), u)

\* the thread that writes frames or packets to ch is outside its callback
WriterIdle(ch) == IF ch = "stdout" THEN vpc = "idle" ELSE apc = "idle"

\* a callback of thread t has returned after starting a write
Returned(t) == lastDone[t].u.src # "none"

\* C4: the bytes of one frame or packet are contiguous on their channel: no
\* byte of another writer (log text included) lies between two bytes of the
\* same audio packet on stderr or of the same video buffer on stdout.
C4_WritesAreAtomic ==
    \A ch \in Channels :
       \A i, j, k \in DOMAIN stream[ch] :
          (i < j /\ j < k /\ stream[ch][i].u.src # "log"
                 /\ stream[ch][i].u = stream[ch][k].u)
             => stream[ch][j].u = stream[ch][i].u

\* C5: after a write callback has returned, its channel holds all bytes of
\* the buffer or none of them, also after a failed write and after the running
\* flag was cleared during the loop.
C5_WriteAllOrNothing ==
    \A t \in Threads :
       Returned(t) =>
          BytesOf(stream[ChannelOf(t)], lastDone[t].u) \in { 0, lastDone[t].size }

\* C6 (as stated): the i-th invocation of the output callback carries the
\* output of the i-th successful submission, and the bytes reach stdout in
\* that order.
C6_CallbackPerSubmission ==
    encodeH264 =>
       \A i \in DOMAIN stream["stdout"] :
          /\ stream["stdout"][i].u.n = stream["stdout"][i].u.sub
          /\ \A k \in DOMAIN stream["stdout"] :
                i < k => stream["stdout"][i].u.sub < stream["stdout"][k].u.sub

\* C6 (amended): a submission makes zero, one or several callback invocations
\* (one per non-empty reframed segment); the invocations are made, and their
\* bytes reach stdout, in submission order and within a submission in segment
\* order, each buffer from its first byte and in one piece.
C6_SubmissionOrder ==
    \A i \in DOMAIN stream["stdout"] :
       LET c == stream["stdout"][i]
       IN  /\ c.u.src = "video"
           /\ c.lo = 0
           /\ \A k \in DOMAIN stream["stdout"] :
                 i < k =>
                    LET d == stream["stdout"][k]
                    IN  /\ c.u.n < d.u.n
                        /\ \/ c.u.sub < d.u.sub
                           \/ c.u.sub = d.u.sub /\ c.u.seg < d.u.seg

\* stdout holds the two buffers of a two-segment submission and the buffer of
\* a later submission
C6_Witness ==
    /\ encodeH264
    /\ Len(stream["stdout"]) = 3
    /\ stream["stdout"][1].u.sub = stream["stdout"][2].u.sub
    /\ stream["stdout"][2].u.sub < stream["stdout"][3].u.sub
    /\ vpc = "idle"

\* C9: after the first failed write on a channel no further write is
\* attempted on it, and the failure is reported exactly once (stdout and stderr).
C9_NoWriteAfterFailure ==
    \A ch \in Channels :
       /\ wrFailed[ch] => ~wrAfterFail[ch]
       /\ (wrFailed[ch] /\ WriterIdle(ch)) => reports[ch] = 1

\* C10: when a write accepted fewer bytes than requested and neither an error
\* nor a shutdown occurred, the whole frame or packet is on the channel when
\* the callback returns.
C10_ShortWritesRetried ==
    \A t \in Threads :
       (Returned(t) /\ lastDone[t].short /\ ~lastDone[t].err /\ lastDone[t].running)
          => BytesOf(stream[ChannelOf(t)], lastDone[t].u) = lastDone[t].size

\* the sampleCount the header of an audio packet of 'size' bytes carries:
\* audioCallback builds the header from sampleCount and sends sampleCount * 4
\* payload bytes after it
SamplesOf(size) == (size - AUDIO_HEADER_SIZE) \div BYTES_PER_SAMPLE

\* C16: an audio packet on stderr is its 24-byte header, whose sampleCount is
\* n, followed at once by exactly n * 4 payload bytes (for a callback that
\* returned with no write error and no shutdown).
C16_PacketIsHeaderPlusPayload ==
    (Returned("audio") /\ ~lastDone["audio"].err /\ lastDone["audio"].running) =>
        \E i \in DOMAIN stream["stderr"] :
            /\ stream["stderr"][i].u = lastDone["audio"].u
            /\ stream["stderr"][i].lo = 0
            /\ stream["stderr"][i].hi =
                  AUDIO_HEADER_SIZE
                  + SamplesOf(lastDone["audio"].size) * BYTES_PER_SAMPLE

----------------------------------------------------------------------------
(* Capture(): "Initialize H.264 encoder if requested", on both platforms   *)

\* Capture() is entered: encodeH264 is what the command line asked for, no
\* encoder object exists yet
InitSetup ==
    /\ platform \in { "linux", "windows" }
    /\ encodeH264 \in BOOLEAN
    /\ MuxRest
    /\ EncInitFields
    /\ m_gopSize \in 1..MaxGop
    /\ m_callback = FALSE
    /\ ObsInit
    /\ rf_in = <<>>
    /\ rf_pc = "off"
    /\ PureRest
    /\ ShRest
    /\ MfRest
    /\ CapiRest

\* what Capture() does after the encoder set-up: go on to capture, or leave
\* with exit code 1
AfterSetupFailure(variant) == IF variant = "linux" THEN "capturing" ELSE "return 1"

\* the encoder set-up of Capture(): IsHardwareEncoderAvailable(), the
\* constructor, Initialize(), and what follows a failure (Linux: warning,
\* encoder.reset(), encodeH264 = false; Windows: error, return 1)
SetupEncoder(available, outcome) ==
    /\ lastCall = NoCall
    /\ LET called == encodeH264 /\ available
           ok     == called /\ outcome = "ok"
       IN  /\ lastCall' = [ op |-> "Capture", requested |-> encodeH264,
                            available |-> available,
                            called |-> called,
                            failed |-> IF called /\ ~ok THEN outcome ELSE "none",
                            ret |-> ok,
                            at |-> "encoder set up",
                            exit |-> IF encodeH264 /\ ~ok
                                     THEN AfterSetupFailure(platform)
                                     ELSE "capturing" ]
           /\ encodeH264' = ok
           /\ m_initialized' = ok
           /\ m_surfaces' = IF ok THEN FreshSurfaces(surfGen) ELSE <<>>
           /\ surfGen' = IF called /\ outcome \in { "ok", "CreateContext",
                                                    "CreateCodedBuffer" }
                         THEN surfGen + 1 ELSE surfGen
           /\ nLife' = IF called THEN nLife + 1 ELSE nLife
    /\ UNCHANGED << m_gopSize, m_frameCount, m_currentSurface, m_refSurface,
                    m_refSurfaceIndex, m_sps, m_pps, m_haveSpsPs, m_avccBuffer,
                    m_callback, m_frameNumInGop, m_idrPicId,
                    nSubmit, nOk, nKey, stopState, rfVars, pfVars, mfVars, capiVars, shVars,
                    platform, g_running, g_stderrMutex, frameCount,
                    encodedFrameCount, audioPacketCount, chanOpen, stream,
                    vpc, vq, vcur, vCalls, apc, acur, aCalls, nCb, lastDone,
                    wrFailed, wrAfterFail, reports, sigSent >>

\* "if (encodeH264 && encoder) { encoder->SetCallback(...) }"
InstallCallback ==
    /\ lastCall.op = "Capture"
    /\ lastCall.at = "encoder set up"
    /\ lastCall.exit = "capturing"
    /\ lastCall' = [ lastCall EXCEPT !.at = "callback installed" ]
    /\ m_callback' = encodeH264
    /\ UNCHANGED << m_gopSize, m_initialized, m_frameCount, m_surfaces,
                    m_currentSurface, m_refSurface, m_refSurfaceIndex, m_sps,
                    m_pps, m_haveSpsPs, m_avccBuffer, m_frameNumInGop,
                    m_idrPicId, surfGen, nSubmit, nOk, nKey, nLife, stopState,
                    rfVars, pfVars, mfVars, capiVars, shVars, muxVars >>

NextSetup ==
    \/ \E available \in BOOLEAN : \E outcome \in InitOutcomes :
          SetupEncoder(available, outcome)
    \/ InstallCallback

SpecSetup == InitSetup /\ [][NextSetup]_vars

\* C17: when encoding was requested and the encoder is unavailable or
\* Initialize fails, Initialize has not returned true, the session is
\* uninitialized, and Capture goes on with raw NV12 video instead of failing,
\* on Linux and on Windows.
C17_FallbackToRaw ==
    (lastCall.op = "Capture" /\ lastCall.requested
        /\ (~lastCall.available \/ ~lastCall.ret)) =>
        /\ ~lastCall.ret
        /\ ~m_initialized
        /\ ~encodeH264
        /\ lastCall.exit = "capturing"

----------------------------------------------------------------------------
(* Protocol.h: AudioPacketHeader (both variants) and PreviewPacketHeader.  *)
(* An unsigned integer is kept as its bytes, most significant first; what  *)
(* a packed struct member occupies in memory depends on the host's order.  *)

AudioPacketHeader_MAGIC == 1296253264
PreviewPacketHeader_MAGIC == 1347568982
AudioPacketHeader_VERSION == 2
SAMPLE_RATE == 48000

RECURSIVE Reverse(_)
Reverse(b) == IF b = <<>> THEN <<>> ELSE Reverse(Tail(b)) \o << Head(b) >>

U16(n) == << (n \div 256) % 256, n % 256 >>
U32(n) == BE32(n)
\* a uint64_t below 2^32
U64(n) == <<0, 0, 0, 0>> \o BE32(n)

\* the bytes a value of an integer type occupies in memory on the host
Mem(u, host) == IF host = "little" THEN Reverse(u) ELSE u

\* htonl / htons: the identity on a big-endian host, a byte swap on a
\* little-endian one
Htonl(u, host) == IF host = "little" THEN Reverse(u) ELSE u
Htons(u, host) == IF host = "little" THEN Reverse(u) ELSE u

\* ToBigEndian64: the swap under __ORDER_LITTLE_ENDIAN__, else the value
ToBigEndian64(u, host) == IF host = "little" THEN Reverse(u) ELSE u

\* the byte orders the build of a variant can have
HostOrders(variant) == IF variant = "windows" THEN { "little" }
                       ELSE { "little", "big" }

\* AudioPacketHeader(samples, ts) as the 24 bytes write() sends
AudioPacketHeader(variant, host, samples, ts) ==
    Mem(IF variant = "linux" THEN Htonl(U32(AudioPacketHeader_MAGIC), host)
        ELSE U32(AudioPacketHeader_MAGIC), host)
    \o << AudioPacketHeader_VERSION, 16, 2, 0 >>
    \o Mem(U32(samples), host)
    \o Mem(U32(SAMPLE_RATE), host)
    \o Mem(U64(ts), host)

\* PreviewPacketHeader(w, h, fmt, ts, pixelDataSize) as its 21 bytes
PreviewPacketHeader(host, w, h, fmt, ts, pixelDataSize) ==
    Mem(Htonl(U32(PreviewPacketHeader_MAGIC), host), host)
    \o Mem(Htonl(U32(2 + 2 + 1 + 8 + pixelDataSize), host), host)
    \o Mem(Htons(U16(w), host), host)
    \o Mem(Htons(U16(h), host), host)
    \o << fmt >>
    \o Mem(ToBigEndian64(U64(ts), host), host)

\* the integer field of 'size' bytes at offset 'off', read as section 6 of the
\* specification lays it out (most significant byte first)
ReadBE(bytes, off, size) == SubSeq(bytes, off + 1, off + size)

\* the consumer's side of the audio header: sampleCount at offset 8,
\* timestampMs at offset 16
ParseAudioHeader(bytes) ==
    [ sampleCount |-> ReadBE(bytes, 8, 4), timestampMs |-> ReadBE(bytes, 16, 8) ]

SampleCounts == { 0, 1, 480, 960, 65536, 16909060 }
Timestamps == { 0, 1, 1000, 16909060, 2147483647 }
Widths == { 2, 320, 1920 }
Heights == { 2, 240 }
PreviewFormats == { 0, 1, 2 }
PixelDataSizes == { 0, 6, 115200 }

AudioArgs ==
    [ fn : { "AudioPacketHeader" }, host : { "little", "big" },
      samples : SampleCounts, ts : Timestamps ]

PreviewArgs ==
    [ fn : { "PreviewPacketHeader" }, host : { "little", "big" },
      w : Widths, h : Heights, fmt : PreviewFormats, ts : Timestamps,
      pixelDataSize : PixelDataSizes ]

InitHeader ==
    /\ platform \in { "linux", "windows" }
    /\ encodeH264 = FALSE
    /\ MuxRest
    /\ EncInitFields
    /\ m_gopSize = 1
    /\ m_callback = FALSE
    /\ ObsInit
    /\ rf_in = <<>>
    /\ rf_pc = "off"
    /\ pf_in \in { a \in AudioArgs : a.host \in HostOrders(platform) }
                 \cup { a \in PreviewArgs : platform = "linux" }
    /\ pf_out = <<>>
    /\ ShRest
    /\ MfRest
    /\ CapiRest

BuildAudioHeader ==
    /\ pf_in.fn = "AudioPacketHeader"
    /\ pf_out = <<>>
    /\ pf_out' = AudioPacketHeader(platform, pf_in.host, pf_in.samples, pf_in.ts)
    /\ UNCHANGED << encVars, obsVars, rfVars, mfVars, capiVars, pf_in, muxVars, shVars >>

BuildPreviewHeader ==
    /\ pf_in.fn = "PreviewPacketHeader"
    /\ pf_out = <<>>
    /\ pf_out' = PreviewPacketHeader(pf_in.host, pf_in.w, pf_in.h, pf_in.fmt,
                                     pf_in.ts, pf_in.pixelDataSize)
    /\ UNCHANGED << encVars, obsVars, rfVars, mfVars, capiVars, pf_in, muxVars, shVars >>

NextHeader == BuildAudioHeader \/ BuildPreviewHeader

SpecHeader == InitHeader /\ [][NextHeader]_vars

AudioBuilt == pf_in.fn = "AudioPacketHeader" /\ pf_out # <<>>
PreviewBuilt == pf_in.fn = "PreviewPacketHeader" /\ pf_out # <<>>

\* C13: reading the header built from (sampleCount, timestampMs) by the
\* section-6 layout gives back (sampleCount, timestampMs), and the header is
\* 24 bytes long.
C13_AudioHeaderRoundTrip ==
    AudioBuilt =>
        /\ Len(pf_out) = AUDIO_HEADER_SIZE
        /\ ParseAudioHeader(pf_out) = [ sampleCount |-> U32(pf_in.samples),
                                        timestampMs |-> U64(pf_in.ts) ]

\* C14: every multi-byte integer field of the audio header (magic,
\* sampleCount, sampleRate, timestamp) and of the preview header (magic,
\* length, width, height, timestamp) is serialized most significant byte
\* first, on the Linux and on the Windows variant.
C14_AllFieldsBigEndian ==
    /\ AudioBuilt =>
          /\ ReadBE(pf_out, 0, 4) = U32(AudioPacketHeader_MAGIC)
          /\ ReadBE(pf_out, 8, 4) = U32(pf_in.samples)
          /\ ReadBE(pf_out, 12, 4) = U32(SAMPLE_RATE)
          /\ ReadBE(pf_out, 16, 8) = U64(pf_in.ts)
    /\ PreviewBuilt =>
          /\ ReadBE(pf_out, 0, 4) = U32(PreviewPacketHeader_MAGIC)
          /\ ReadBE(pf_out, 4, 4) = U32(2 + 2 + 1 + 8 + pf_in.pixelDataSize)
          /\ ReadBE(pf_out, 8, 2) = U16(pf_in.w)
          /\ ReadBE(pf_out, 10, 2) = U16(pf_in.h)
          /\ ReadBE(pf_out, 13, 8) = U64(pf_in.ts)

\* C15: the length field of the 21-byte preview header decodes to
\* payloadSize, the number of pixel bytes after the header.
C15_PreviewLengthIsPayloadSize ==
    PreviewBuilt =>
        /\ Len(pf_out) = 21
        /\ ReadBE(pf_out, 4, 4) = U32(pf_in.pixelDataSize)


----------------------------------------------------------------------------
(* MediaFoundationEncoder.  The transform (MFT) is the environment: it      *)
(* takes frames in ProcessInput and has the output of some of them ready    *)
(* when asked; mft is the queue of the frames taken whose output was not    *)
(* retrieved yet, oldest first.                                             *)

InitMf ==
    /\ platform = "windows"
    /\ encodeH264 = TRUE
    /\ MuxRest
    /\ EncInitFields
    /\ m_gopSize = 2
    /\ m_callback \in BOOLEAN
    /\ ObsInit
    /\ rf_in = <<>>
    /\ rf_pc = "off"
    /\ PureRest
    /\ ShRest
    /\ MfRest
    /\ CapiRest

\* where Initialize() can stop: before CreateEncoder(), after it, or nowhere
MfInitOutcomes == { "MFStartup", "ConfigureEncoder", "ok" }

\* Initialize(device): async says whether the transform activated is an
\* asynchronous one whose event generator was obtained
MF_Initialize(outcome, async) ==
    /\ mfpc = "idle"
    /\ nLife < MaxLife
    /\ nLife' = nLife + 1
    /\ IF m_initialized
       THEN /\ lastCall' = [ op |-> "Initialize", ret |-> TRUE ]
            /\ UNCHANGED << m_initialized, m_encoder, m_isAsync, mft, stopState >>
       ELSE /\ lastCall' = [ op |-> "Initialize", ret |-> (outcome = "ok") ]
            /\ m_initialized' = (outcome = "ok")
            /\ m_encoder' = (m_encoder \/ outcome # "MFStartup")
            /\ m_isAsync' = IF outcome = "MFStartup" THEN m_isAsync
                            ELSE (m_isAsync \/ async)
            /\ mft' = IF outcome = "MFStartup" THEN mft ELSE <<>>
            /\ stopState' = IF outcome = "ok" /\ stopState = "stopped"
                            THEN "reopened" ELSE stopState
    /\ UNCHANGED << m_gopSize, m_frameCount, m_surfaces, m_currentSurface,
                    m_refSurface, m_refSurfaceIndex, m_sps, m_pps, m_haveSpsPs,
                    m_avccBuffer, m_callback, m_frameNumInGop, m_idrPicId, surfGen,
                    nSubmit, nOk, nKey, rfVars, pfVars, muxVars, shVars, mfpc,
                    delivered, capiVars >>

\* mutant: EncodeNV12 does not look at m_initialized
MfRejects_Never(initialized) == FALSE

\* EncodeNV12 / EncodeFrame: "if (!m_initialized) return false;"
MfRejects(initialized) == ~initialized

\* ProcessOutput() retrieving the output of the n oldest frames of queue:
\* OutputNalUnits calls m_callback once for each, when a callback is set
Retrieved(queue, n, hasCallback, during, call) ==
    IF hasCallback
    THEN [ i \in 1..n |-> [ k |-> queue[i], during |-> during, call |-> call ] ]
    ELSE <<>>

\* which failures make EncodeNV12 return false
MfFailPoints == { "none", "Map", "ProcessInput" }

\* EncodeNV12(nv12Data, size, timestampMs) and the EncodeFrame it ends in.
\* fail is the step that fails; n is the number of outputs the transform has
\* ready when ProcessOutput() asks (after the input was taken, or, when
\* ProcessInput does not accept, before it is tried again).
MF_EncodeNV12(fail, n) ==
    /\ mfpc = "idle"
    /\ nSubmit < MaxMfSubmits
    /\ nSubmit' = nSubmit + 1
    /\ IF MfRejects(m_initialized)
       THEN /\ n = 0
            /\ lastCall' = [ op |-> "EncodeNV12", k |-> nSubmit, ret |-> FALSE,
                             fail |-> "not initialized", cbs |-> <<>> ]
            /\ UNCHANGED << m_frameCount, nOk, mft, delivered >>
       ELSE IF fail = "Map"
       THEN /\ n = 0
            /\ lastCall' = [ op |-> "EncodeNV12", k |-> nSubmit, ret |-> FALSE,
                             fail |-> fail, cbs |-> <<>> ]
            /\ UNCHANGED << m_frameCount, nOk, mft, delivered >>
       ELSE IF fail = "ProcessInput"
       THEN /\ n <= Len(mft)
            /\ lastCall' = [ op |-> "EncodeNV12", k |-> nSubmit, ret |-> FALSE,
                             fail |-> fail,
                             cbs |-> Retrieved(mft, n, m_callback, "EncodeNV12", nSubmit) ]
            /\ delivered' = delivered \o Retrieved(mft, n, m_callback, "EncodeNV12", nSubmit)
            /\ mft' = SubSeq(mft, n + 1, Len(mft))
            /\ UNCHANGED << m_frameCount, nOk >>
       ELSE LET queue == Append(mft, nSubmit)
            IN  /\ n <= Len(queue)
                /\ lastCall' = [ op |-> "EncodeNV12", k |-> nSubmit, ret |-> TRUE,
                                 fail |-> fail,
                                 cbs |-> Retrieved(queue, n, m_callback, "EncodeNV12", nSubmit) ]
                /\ delivered' = delivered
                                  \o Retrieved(queue, n, m_callback, "EncodeNV12", nSubmit)
                /\ mft' = SubSeq(queue, n + 1, Len(queue))
                /\ m_frameCount' = m_frameCount + 1
                /\ nOk' = nOk + 1
    /\ UNCHANGED << m_gopSize, m_initialized, m_surfaces, m_currentSurface,
                    m_refSurface, m_refSurfaceIndex, m_sps, m_pps, m_haveSpsPs,
                    m_avccBuffer, m_callback, m_frameNumInGop, m_idrPicId, surfGen,
                    nKey, nLife, stopState, rfVars, pfVars, muxVars, shVars,
                    m_encoder, m_isAsync, mfpc, capiVars >>

\* Stop() is entered: with a transform, Flush() sends the drain command and
\* comes to its loop "while (ProcessOutput()) {}"
MF_Stop ==
    /\ mfpc = "idle"
    /\ nLife < MaxLife
    /\ nLife' = nLife + 1
    /\ lastCall' = [ op |-> "Stop", returned |-> FALSE ]
    /\ mfpc' = IF m_encoder THEN "flush_call" ELSE "stop_rest"
    /\ UNCHANGED << encVars, surfGen, nSubmit, nOk, nKey, stopState, rfVars, pfVars,
                    muxVars, shVars, m_encoder, m_isAsync, mft, delivered, capiVars >>

\* what ProcessOutput() can return with a transform set: the loop of a
\* synchronous transform ends in "return true" only; the event loop of an
\* asynchronous one returns false on an error event or a failed retrieval
ProcessOutputResults(isAsync) == IF isAsync THEN BOOLEAN ELSE { TRUE }

\* Flush(): one evaluation of ProcessOutput() in the loop condition; the
\* transform has n outputs ready
MF_FlushProcessOutput(n, result) ==
    /\ mfpc = "flush_call"
    /\ n <= Len(mft)
    /\ result \in ProcessOutputResults(m_isAsync)
    /\ delivered' = delivered \o Retrieved(mft, n, m_callback, "Stop", nSubmit)
    /\ mft' = SubSeq(mft, n + 1, Len(mft))
    /\ mfpc' = IF result THEN "flush_again" ELSE "stop_rest"
    /\ UNCHANGED << encVars, obsVars, rfVars, pfVars, muxVars, shVars, m_encoder,
                    m_isAsync, capiVars >>

\* Flush(): the empty loop body, back to the loop condition
MF_FlushAgain ==
    /\ mfpc = "flush_again"
    /\ mfpc' = "flush_call"
    /\ UNCHANGED << encVars, obsVars, rfVars, pfVars, muxVars, shVars, m_encoder,
                    m_isAsync, mft, delivered, capiVars >>

\* Stop() after Flush(): the objects are released, m_initialized is cleared
MF_StopFinish ==
    /\ mfpc = "stop_rest"
    /\ mfpc' = "idle"
    /\ m_encoder' = FALSE
    /\ mft' = <<>>
    /\ m_initialized' = FALSE
    /\ stopState' = "stopped"
    /\ lastCall' = [ op |-> "Stop", returned |-> TRUE ]
    /\ UNCHANGED << m_gopSize, m_frameCount, m_surfaces, m_currentSurface,
                    m_refSurface, m_refSurfaceIndex, m_sps, m_pps, m_haveSpsPs,
                    m_avccBuffer, m_callback, m_frameNumInGop, m_idrPicId, surfGen,
                    nSubmit, nOk, nKey, nLife, rfVars, pfVars, muxVars, shVars,
                    m_isAsync, delivered, capiVars >>

\* the steps inside Stop()
MfStopSteps ==
    \/ \E n \in 0..MaxMfSubmits : \E result \in BOOLEAN : MF_FlushProcessOutput(n, result)
    \/ MF_FlushAgain
    \/ MF_StopFinish

NextMf ==
    \/ \E outcome \in MfInitOutcomes : \E async \in BOOLEAN : MF_Initialize(outcome, async)
    \/ \E fail \in MfFailPoints : \E n \in 0..MaxMfSubmits : MF_EncodeNV12(fail, n)
    \/ MF_Stop
    \/ MfStopSteps

SpecMf == InitMf /\ [][NextMf]_vars

\* the thread inside Stop() keeps running
FairMf == InitMf /\ [][NextMf]_vars /\ WF_vars(MfStopSteps)

----------------------------------------------------------------------------
(* Capture(): start-up, wait for shutdown, and teardown.                    *)
(* The orchestrating thread runs Capture(); each capturer runs its loop on  *)
(* its own thread and calls frameCallback / audioCallback from it.  The     *)
(* bytes written are those of the thread model above; here a write is one   *)
(* step that succeeds or fails.                                             *)

\* the mux variables no step of the teardown model touches
muxQuiet == << platform, encodeH264, g_stderrMutex, chanOpen, vpc, vq, vcur,
               vCalls, apc, acur, aCalls, nCb, lastDone, wrFailed, wrAfterFail,
               reports >>

\* the session fields no step of the teardown model touches
encQuiet == << m_gopSize, m_currentSurface, m_refSurface, m_refSurfaceIndex,
               m_sps, m_pps, m_haveSpsPs, m_avccBuffer, m_callback >>

InitShutdown ==
    /\ platform \in { "linux", "windows" }
    /\ encodeH264 \in BOOLEAN
    /\ MuxRest
    /\ m_gopSize = 2
    /\ m_callback = encodeH264
    /\ m_initialized = encodeH264
    /\ m_surfaces = IF encodeH264 THEN FreshSurfaces(0) ELSE <<>>
    /\ m_frameCount = 0
    /\ m_currentSurface = 0
    /\ m_refSurface = VA_INVALID_SURFACE
    /\ m_refSurfaceIndex = 0
    /\ m_sps = <<>>
    /\ m_pps = <<>>
    /\ m_haveSpsPs = FALSE
    /\ m_avccBuffer = <<>>
    /\ m_frameNumInGop = 0
    /\ m_idrPicId = 0
    /\ surfGen = IF encodeH264 THEN 1 ELSE 0
    /\ lastCall = NoCall
    /\ nSubmit = 0
    /\ nOk = 0
    /\ nKey = 0
    /\ nLife = 0
    /\ stopState = "open"
    /\ rf_in = <<>>
    /\ rf_pc = "off"
    /\ PureRest
    /\ mpc = "start_audio"
    /\ m_running = [ t \in Threads |-> FALSE ]
    /\ tpc = [ t \in Threads |-> "none" ]
    /\ seen = [ t \in Threads |-> TRUE ]
    /\ m_encoder = (platform = "windows" /\ encodeH264)
    /\ m_isAsync \in (IF m_encoder THEN BOOLEAN ELSE { FALSE })
    /\ mft = <<>>
    /\ mfpc = "idle"
    /\ delivered = <<>>
    /\ CapiRest

\* the capture thread of t is not running: never started, or joined
Gone(t) == tpc[t] \in { "none", "unstarted", "joined" }

\* where Capture() goes after the video capturer was stopped, or was never
\* started: Linux with a started capture stops the encoder and then the audio
\* capturer; Linux without one stops the audio capturer and returns 1, the
\* encoder being stopped by its destructor; Windows stops the audio capturer
\* and then the encoder in both cases
AfterVideo(variant, captureStarted) ==
    IF variant = "linux" /\ captureStarted THEN "stop_encoder" ELSE "stop_audio"

AfterAudio(variant, captureStarted) ==
    IF variant = "linux" /\ captureStarted THEN "returned" ELSE "stop_encoder"

AfterEncoder(variant, captureStarted) ==
    IF variant = "linux" /\ captureStarted THEN "stop_audio" ELSE "returned"

\* "if (audioCapturer) audioCapturer->Start(audioCallback)": the capturer is
\* there when audio was requested and its Initialize() succeeded
M_StartAudio(present) ==
    /\ mpc = "start_audio"
    /\ mpc' = "init_video"
    /\ IF present
       THEN /\ m_running' = [ m_running EXCEPT !["audio"] = TRUE ]
            /\ tpc' = [ tpc EXCEPT !["audio"] = "loop" ]
       ELSE UNCHANGED << m_running, tpc >>
    /\ UNCHANGED << encVars, obsVars, rfVars, pfVars, mfVars, capiVars, muxVars, seen >>

\* "if (capturer.Initialize(...)) { capturer.Start(frameCallback);
\* captureStarted = true; ... }": Start() sets m_running and spawns the
\* thread; V4L2Capturer::Start() returns without either when StartStreaming()
\* fails ("unstarted")
M_InitVideo(outcome) ==
    /\ mpc = "init_video"
    /\ CASE outcome = "started" ->
              /\ m_running' = [ m_running EXCEPT !["video"] = TRUE ]
              /\ tpc' = [ tpc EXCEPT !["video"] = "loop" ]
              /\ mpc' = "wait"
         [] outcome = "unstarted" ->
              /\ tpc' = [ tpc EXCEPT !["video"] = "unstarted" ]
              /\ mpc' = "wait"
              /\ UNCHANGED m_running
         [] OTHER ->
              /\ mpc' = AfterVideo(platform, FALSE)
              /\ UNCHANGED << m_running, tpc >>
    /\ UNCHANGED << encVars, obsVars, rfVars, pfVars, mfVars, capiVars, muxVars, seen >>

\* "while (g_running && capturer.IsRunning()) usleep(100000);": a turn of the
\* loop that finds both true changes nothing; the loop is left when one is false
M_Wait ==
    /\ mpc = "wait"
    /\ ~(g_running /\ m_running["video"])
    /\ mpc' = "stop_video"
    /\ UNCHANGED << encVars, obsVars, rfVars, pfVars, mfVars, capiVars, muxVars, m_running, tpc, seen >>

\* capturer.Stop(), first half: "m_running = false;"
M_StopVideo ==
    /\ mpc = "stop_video"
    /\ m_running' = [ m_running EXCEPT !["video"] = FALSE ]
    /\ mpc' = "join_video"
    /\ UNCHANGED << encVars, obsVars, rfVars, pfVars, mfVars, capiVars, muxVars, tpc, seen >>

\* mutant: Stop() does not wait for the capture thread
M_JoinVideo_NoWait ==
    /\ mpc = "join_video"
    /\ mpc' = AfterVideo(platform, TRUE)
    /\ UNCHANGED << encVars, obsVars, rfVars, pfVars, mfVars, capiVars, muxVars, m_running, tpc, seen >>

\* capturer.Stop(), second half: "m_captureThread.join();" returns when the
\* capture loop has returned; there is nothing to join when no thread was
\* spawned
M_JoinVideo ==
    /\ mpc = "join_video"
    /\ tpc["video"] \in { "exited", "unstarted" }
    /\ tpc' = [ tpc EXCEPT !["video"] =
                  IF tpc["video"] = "exited" THEN "joined" ELSE "unstarted" ]
    /\ mpc' = AfterVideo(platform, TRUE)
    /\ UNCHANGED << encVars, obsVars, rfVars, pfVars, mfVars, capiVars, muxVars, m_running, seen >>

\* "if (encoder) encoder->Stop();", or the encoder's destructor when Capture()
\* returns without having called it
M_StopEncoder ==
    /\ mpc = "stop_encoder"
    /\ IF encodeH264 /\ platform = "linux"
       THEN /\ mpc' = AfterEncoder(platform, tpc["video"] # "none")
            /\ m_surfaces' = <<>>
            /\ m_initialized' = FALSE
            /\ stopState' = "stopped"
            /\ nLife' = nLife + 1
            /\ lastCall' = [ op |-> "Stop" ]
            /\ UNCHANGED mfpc
       ELSE IF encodeH264
       THEN /\ mpc' = "in_stop"
            /\ nLife' = nLife + 1
            /\ lastCall' = [ op |-> "Stop", returned |-> FALSE ]
            /\ mfpc' = IF m_encoder THEN "flush_call" ELSE "stop_rest"
            /\ UNCHANGED << m_surfaces, m_initialized, stopState >>
       ELSE /\ mpc' = AfterEncoder(platform, tpc["video"] # "none")
            /\ UNCHANGED << m_surfaces, m_initialized, stopState, nLife, lastCall,
                            mfpc >>
    /\ UNCHANGED << encQuiet, m_frameCount, m_frameNumInGop, m_idrPicId, surfGen,
                    nSubmit, nOk, nKey, rfVars, pfVars, m_encoder, m_isAsync, mft,
                    delivered, muxVars, m_running, tpc, seen, capiVars >>

\* MediaFoundationEncoder::Stop() has returned to Capture()
M_StopReturned ==
    /\ mpc = "in_stop"
    /\ mfpc = "idle"
    /\ mpc' = AfterEncoder(platform, tpc["video"] # "none")
    /\ UNCHANGED << encVars, obsVars, rfVars, pfVars, mfVars, capiVars, muxVars, m_running,
                    tpc, seen >>

\* "if (audioCapturer) audioCapturer->Stop();", first half: m_running = false
M_StopAudio ==
    /\ mpc = "stop_audio"
    /\ IF tpc["audio"] = "none"
       THEN /\ mpc' = AfterAudio(platform, tpc["video"] # "none")
            /\ UNCHANGED m_running
       ELSE /\ mpc' = "join_audio"
            /\ m_running' = [ m_running EXCEPT !["audio"] = FALSE ]
    /\ UNCHANGED << encVars, obsVars, rfVars, pfVars, mfVars, capiVars, muxVars, tpc, seen >>

\* audioCapturer->Stop(), second half: the capturer's thread is stopped and
\* waited for
M_JoinAudio ==
    /\ mpc = "join_audio"
    /\ tpc["audio"] = "exited"
    /\ tpc' = [ tpc EXCEPT !["audio"] = "joined" ]
    /\ mpc' = AfterAudio(platform, tpc["video"] # "none")
    /\ UNCHANGED << encVars, obsVars, rfVars, pfVars, mfVars, capiVars, muxVars, m_running, seen >>

\* CaptureLoop(): "while (m_running)" found true and a frame or chunk was
\* captured: the callback is called
T_Capture(t) ==
    /\ tpc[t] = "loop"
    /\ m_running[t]
    /\ IF t = "video" THEN frameCount < MaxFrames ELSE audioPacketCount < MaxPackets
    /\ tpc' = [ tpc EXCEPT ![t] = "callback" ]
    /\ UNCHANGED << encVars, obsVars, rfVars, pfVars, mfVars, capiVars, muxVars, mpc, m_running, seen >>

\* CaptureLoop(): "while (m_running)" found false, the loop returns
T_Exit(t) ==
    /\ tpc[t] = "loop"
    /\ ~m_running[t]
    /\ tpc' = [ tpc EXCEPT ![t] = "exited" ]
    /\ UNCHANGED << encVars, obsVars, rfVars, pfVars, mfVars, capiVars, muxVars, mpc, m_running, seen >>

\* V4L2Capturer::CaptureLoop(): "break" when poll or a buffer ioctl fails;
\* m_running stays as it is
T_Break ==
    /\ tpc["video"] = "loop"
    /\ m_running["video"]
    /\ tpc' = [ tpc EXCEPT !["video"] = "exited" ]
    /\ UNCHANGED << encVars, obsVars, rfVars, pfVars, mfVars, capiVars, muxVars, mpc, m_running, seen >>

\* mutant: the callback does not look at g_running
AfterEntry_Blind(t, h264, running) ==
    IF t = "video" THEN (IF h264 THEN "submit" ELSE "check") ELSE "check"

\* frameCallback / audioCallback, "if (!g_running) return;": where the thread
\* goes from the entry of the callback
AfterEntry(t, h264, running) ==
    IF ~running THEN "loop"
    ELSE IF t = "video" THEN (IF h264 THEN "submit" ELSE "check") ELSE "check"

\* entry of frameCallback / audioCallback: read g_running, count the frame
T_CallbackEnter(t) ==
    /\ tpc[t] = "callback"
    /\ seen' = [ seen EXCEPT ![t] = g_running ]
    /\ tpc' = [ tpc EXCEPT ![t] = AfterEntry(t, encodeH264, g_running) ]
    /\ frameCount' = IF t = "video" /\ g_running THEN frameCount + 1 ELSE frameCount
    /\ UNCHANGED << encVars, obsVars, rfVars, pfVars, mfVars, capiVars, muxQuiet, g_running, stream,
                    sigSent, encodedFrameCount, audioPacketCount, mpc, m_running >>

\* EncodeNV12() up to GetEncodedData(): it returns false ("fail"), or the
\* coded buffer holds nothing to emit ("silent"), or the output callback is
\* called ("output")
T_Submit(outcome) ==
    /\ tpc["video"] = "submit"
    /\ nSubmit' = nSubmit + 1
    /\ tpc' = [ tpc EXCEPT !["video"] =
                  CASE outcome = "fail" -> "loop"
                    [] outcome = "silent" -> "advance"
                    [] OTHER -> "check" ]
    /\ UNCHANGED << encVars, surfGen, lastCall, nOk, nKey, nLife, stopState,
                    rfVars, pfVars, mfVars, capiVars, muxVars, mpc, m_running, seen >>

\* where the thread goes when the writing callback returns
AfterWrite(t, h264) == IF t = "video" /\ h264 THEN "advance" ELSE "loop"

\* which callbacks read g_running before each write(): the encoder's output
\* callback on entry, the raw video and the Windows audio loop in
\* "while (written < size && g_running)"; the Linux audioCallback writes the
\* header and the payload without reading it again
ReadsFlagBeforeWrite(t, variant) == t = "video" \/ variant = "windows"

\* the callback reads g_running before it writes, or goes on to write
T_Check(t) ==
    /\ tpc[t] = "check"
    /\ IF ReadsFlagBeforeWrite(t, platform)
       THEN /\ seen' = [ seen EXCEPT ![t] = g_running ]
            /\ tpc' = [ tpc EXCEPT ![t] = IF g_running THEN "write"
                                          ELSE AfterWrite(t, encodeH264) ]
       ELSE /\ tpc' = [ tpc EXCEPT ![t] = "write" ]
            /\ UNCHANGED seen
    /\ UNCHANGED << encVars, obsVars, rfVars, pfVars, mfVars, capiVars, muxVars, mpc, m_running >>

\* which callbacks clear g_running when write() fails
StopsOnWriteError(t, variant) == t = "video" \/ variant = "windows"

\* write() of the frame or packet: it returns, with the bytes taken or with
\* an error
T_Write(t, ok) ==
    /\ tpc[t] = "write"
    /\ tpc' = [ tpc EXCEPT ![t] = AfterWrite(t, encodeH264) ]
    /\ g_running' = IF ~ok /\ StopsOnWriteError(t, platform) THEN FALSE ELSE g_running
    /\ encodedFrameCount' = IF ok /\ t = "video" /\ encodeH264
                            THEN encodedFrameCount + 1 ELSE encodedFrameCount
    /\ audioPacketCount' = IF t = "audio" /\ (ok \/ platform = "linux")
                           THEN audioPacketCount + 1 ELSE audioPacketCount
    /\ UNCHANGED << encVars, obsVars, rfVars, pfVars, mfVars, capiVars, muxQuiet, frameCount, stream,
                    sigSent, mpc, m_running, seen >>

\* EncodeNV12() after GetEncodedData(): the counters of the session advance.
\* The Windows session keeps a frame count only.
T_Advance ==
    /\ tpc["video"] = "advance"
    /\ tpc' = [ tpc EXCEPT !["video"] = "loop" ]
    /\ LET isKeyframe == IsKeyframe(m_frameCount, m_gopSize)
       IN  /\ m_frameCount' = m_frameCount + 1
           /\ m_frameNumInGop' = IF platform = "linux"
                                 THEN NextFrameNumInGop(isKeyframe, m_frameNumInGop)
                                 ELSE m_frameNumInGop
           /\ m_idrPicId' = IF platform = "linux"
                            THEN NextIdrPicId(isKeyframe, m_idrPicId)
                            ELSE m_idrPicId
           /\ nOk' = nOk + 1
           /\ nKey' = IF isKeyframe THEN nKey + 1 ELSE nKey
    /\ UNCHANGED << encQuiet, m_initialized, m_surfaces, surfGen, lastCall, nSubmit,
                    nLife, stopState, rfVars, pfVars, mfVars, capiVars, muxVars, mpc, m_running, seen >>

MainNext ==
    \/ \E present \in BOOLEAN : M_StartAudio(present)
    \/ \E outcome \in { "failed", "unstarted", "started" } : M_InitVideo(outcome)
    \/ M_Wait
    \/ M_StopVideo
    \/ M_JoinVideo
    \/ M_StopEncoder
    \/ MfStopSteps
    \/ M_StopReturned
    \/ M_StopAudio
    \/ M_JoinAudio

ThreadNext(t) ==
    \/ T_Capture(t)
    \/ T_Exit(t)
    \/ T_CallbackEnter(t)
    \/ T_Check(t)
    \/ \E ok \in BOOLEAN : T_Write(t, ok)

VideoNext ==
    \/ ThreadNext("video")
    \/ \E outcome \in { "fail", "silent", "output" } : T_Submit(outcome)
    \/ T_Advance

NextShutdown ==
    \/ MainNext
    \/ VideoNext
    \/ T_Break
    \/ ThreadNext("audio")
    \/ Signal

SpecShutdown == InitShutdown /\ [][NextShutdown]_vars

\* every thread that can take a step eventually takes one: a blocking call
\* (write, join, the encoder's sync) returns.  A failure of the capture device
\* (T_Break) and the signal are not owed.
FairShutdown ==
    /\ InitShutdown
    /\ [][NextShutdown]_vars
    /\ WF_vars(MainNext)
    /\ WF_vars(VideoNext)
    /\ WF_vars(ThreadNext("audio"))

\* Capture() has torn everything down
TornDown ==
    /\ mpc \in { "returned", "in_stop" }
    /\ \A t \in Threads : Gone(t)
    /\ encodeH264 => lastCall.op = "Stop"

\* C18: a callback that is at a write() of a frame or packet read g_running
\* as true the last time it looked; and once g_running is false, every
\* capture loop returns and is joined, Stop() is called on the encoder
\* session that is in use, and Capture() returns.
C18_ShutdownCompletes ==
    /\ [](\A t \in Threads : tpc[t] = "write" => seen[t])
    /\ (~g_running ~> TornDown)

C18_Witness ==
    /\ TornDown
    /\ ~g_running
    /\ encodeH264
    /\ tpc = [ t \in Threads |-> "joined" ]
    /\ frameCount > 0
    /\ \E t \in Threads : ~seen[t]


\* the video capture loop has ended by a "break" (poll, dequeue or re-queue
\* failure, end of stream), not by Stop()
LoopEndedOnItsOwn == tpc["video"] = "exited" /\ m_running["video"]

\* C31: when a capture loop ends on its own, IsRunning() comes to report
\* false, the wait loop of Capture() ends, and the capturers are joined and
\* Stop() is called on the encoder without a shutdown signal.
C31_LoopEndStopsCapture ==
    LoopEndedOnItsOwn ~> (~m_running["video"] /\ TornDown)

\* the per-session counters that make up the GOP state
GopState == << m_frameCount, m_frameNumInGop, m_idrPicId >>

\* the orchestrating thread is about to call Stop() of the encoder, or is in it
StopDue == mpc \in { "stop_encoder", "in_stop" }

\* the video capture thread is inside EncodeNV12()
InEncodeNV12 == encodeH264 /\ tpc["video"] \in { "submit", "check", "write", "advance" }

\* C19: the encoder session is used by one thread at a time: EncodeNV12 is
\* entered by the video capture thread only, Stop() runs on the orchestrating
\* thread only when that capture thread is gone (never spawned, or joined),
\* and the GOP state changes only at the end of an EncodeNV12, once per
\* submitted frame, never while Stop() is due.
C19_SessionSingleThreaded ==
    /\ [](StopDue => Gone("video"))
    /\ [](InEncodeNV12 => ~StopDue)
    /\ [][nSubmit' # nSubmit => tpc["video"] = "submit"]_vars
    /\ [][stopState' # stopState => StopDue /\ Gone("video")]_vars
    /\ [][GopState' # GopState =>
            /\ tpc["video"] = "advance"
            /\ tpc'["video"] = "loop"
            /\ m_frameCount' = m_frameCount + 1]_vars
    /\ [](m_frameCount <= nSubmit /\ nSubmit <= frameCount)

C19_Witness ==
    /\ stopState = "stopped"
    /\ tpc["video"] = "joined"
    /\ m_frameCount = MaxFrames
    /\ m_idrPicId > 0


----------------------------------------------------------------------------
(* V4L2Capturer::ConvertYUYVToNV12 *)

\* mutant: the chroma of the upper row is taken as it is
ConvertYUYVToNV12_UpperRowOnly(yuyv, m_width, m_height) ==
    LET yPlaneSize == m_width * m_height
    IN  [ i \in 1..(yPlaneSize + m_width * (m_height \div 2)) |->
            IF i <= yPlaneSize
            THEN LET y == (i - 1) \div m_width
                     x == (i - 1) % m_width
                 IN  At(yuyv, y * m_width * 2 + x * 2)
            ELSE LET y   == (i - 1 - yPlaneSize) \div m_width
                     x   == ((i - 1 - yPlaneSize) % m_width) \div 2
                     off == IF (i - 1 - yPlaneSize) % 2 = 0 THEN 1 ELSE 3
                 IN  At(yuyv, (y * 2) * m_width * 2 + x * 4 + off) % 256 ]

\* ConvertYUYVToNV12(yuyv, nv12) of a capturer of m_width x m_height: the
\* bytes of nv12 after the call.  The first loop fills the Y plane, the second
\* the interleaved UV plane, one U,V pair per 2x2 block.
ConvertYUYVToNV12(yuyv, m_width, m_height) ==
    LET yPlaneSize == m_width * m_height
    IN  [ i \in 1..(yPlaneSize + m_width * (m_height \div 2)) |->
            IF i <= yPlaneSize
            THEN LET y == (i - 1) \div m_width
                     x == (i - 1) % m_width
                 IN  At(yuyv, y * m_width * 2 + x * 2)
            ELSE LET y   == (i - 1 - yPlaneSize) \div m_width
                     x   == ((i - 1 - yPlaneSize) % m_width) \div 2
                     off == IF (i - 1 - yPlaneSize) % 2 = 0 THEN 1 ELSE 3
                     c0  == At(yuyv, (y * 2) * m_width * 2 + x * 4 + off)
                     c1  == At(yuyv, (y * 2 + 1) * m_width * 2 + x * 4 + off)
                 IN  ((c0 + c1) \div 2) % 256 ]

\* a packed 4:2:2 frame: luma of pixel p at byte 2p, Cb / Cr at byte 2p + 1
Packed(luma, chroma) ==
    [ i \in 1..(2 * Len(luma)) |->
        IF i % 2 = 1 THEN luma[(i + 1) \div 2] ELSE chroma[i \div 2] ]

\* the frame sizes tried: even width, even height
FrameSizes ==
    { d \in (2..MaxWidth) \X (2..MaxHeight) :
        d[1] % 2 = 0 /\ d[2] % 2 = 0 /\ d[1] * d[2] <= MaxPixels }

\* luma planes tried: every mix of two values on the smallest frame; flat, or
\* a different value at every pixel, on the larger ones
LumaPlanes(n) ==
    IF n <= 4 THEN [ 1..n -> { 100, 7 } ]
    ELSE { [ p \in 1..n |-> 100 ], [ p \in 1..n |-> 10 + p ] }

\* chroma samples tried: sums that are odd, even, and above 255
ChromaSamples(n) == IF n <= 4 THEN { 50, 200, 255, 51 } ELSE { 50, 201 }

\* the frames of one size
FramesOf(w, h) ==
    { [ fn |-> "ConvertYUYVToNV12", w |-> w, h |-> h, yuyv |-> Packed(l, c) ] :
        l \in LumaPlanes(w * h), c \in [ 1..(w * h) -> ChromaSamples(w * h) ] }

ConvertArgs == UNION { FramesOf(d[1], d[2]) : d \in FrameSizes }

InitConvert ==
    /\ platform = "linux"
    /\ encodeH264 = FALSE
    /\ MuxRest
    /\ EncInitFields
    /\ m_gopSize = 1
    /\ m_callback = FALSE
    /\ ObsInit
    /\ rf_in = <<>>
    /\ rf_pc = "off"
    /\ pf_in \in ConvertArgs
    /\ pf_out = <<>>
    /\ ShRest
    /\ MfRest
    /\ CapiRest

\* CaptureLoop(): "if (m_needsConversion) ConvertYUYVToNV12(frameData, m_nv12Buffer.data())"
ConvertFrame ==
    /\ pf_in.fn = "ConvertYUYVToNV12"
    /\ pf_out = <<>>
    /\ pf_out' = ConvertYUYVToNV12(pf_in.yuyv, pf_in.w, pf_in.h)
    /\ UNCHANGED << encVars, obsVars, rfVars, mfVars, capiVars, pf_in, muxVars, shVars >>

NextConvert == ConvertFrame

SpecConvert == InitConvert /\ [][NextConvert]_vars

Converted == pf_in.fn = "ConvertYUYVToNV12" /\ pf_out # <<>>

\* the samples of the packed source frame, by pixel position
SrcLuma(x, y) == At(pf_in.yuyv, (y * pf_in.w + x) * 2)
SrcCb(bx, y) == At(pf_in.yuyv, (y * pf_in.w + 2 * bx) * 2 + 1)
SrcCr(bx, y) == At(pf_in.yuyv, (y * pf_in.w + 2 * bx + 1) * 2 + 1)

\* C20: on an even-width, even-height packed 4:2:2 frame the Y plane holds
\* the luma of every pixel at its position, and the UV plane holds for every
\* 2x2 block U = floor((Cb upper + Cb lower) / 2), then V likewise from Cr,
\* at half the width and half the height; the 2x2 frame with Y = 100,
\* Cb = 50, Cr = 200 gives luma 100,100,100,100 and chroma 50,200.
C20_ConvertYUYVToNV12 ==
    Converted =>
        LET w == pf_in.w
            h == pf_in.h
        IN  /\ Len(pf_out) = w * h + 2 * (w \div 2) * (h \div 2)
            /\ \A x \in 0..(w - 1), y \in 0..(h - 1) :
                  At(pf_out, y * w + x) = SrcLuma(x, y)
            /\ \A bx \in 0..(w \div 2 - 1), by \in 0..(h \div 2 - 1) :
                  /\ At(pf_out, w * h + (by * (w \div 2) + bx) * 2)
                        = (SrcCb(bx, 2 * by) + SrcCb(bx, 2 * by + 1)) \div 2
                  /\ At(pf_out, w * h + (by * (w \div 2) + bx) * 2 + 1)
                        = (SrcCr(bx, 2 * by) + SrcCr(bx, 2 * by + 1)) \div 2
            /\ pf_in.yuyv = << 100, 50, 100, 200, 100, 50, 100, 200 >>
                  => pf_out = << 100, 100, 100, 100, 50, 200 >>

C20_Witness ==
    /\ Converted
    /\ pf_in.w = 4
    /\ pf_in.h = 2
    /\ \E i \in 9..12 : pf_out[i] = 125


----------------------------------------------------------------------------
(* X11Capturer::ConvertBGRAtoNV12 *)

Min(a, b) == IF a < b THEN a ELSE b
Clamp(v, lo, hi) == IF v < lo THEN lo ELSE IF v > hi THEN hi ELSE v

\* "std::min(static_cast<int>(i * scale), src - 1)" with scale = src / dst as
\* a float: the product is exact when src = dst, the only case given here
NearestSource(i, src, dst) == Min((i * src) \div dst, src - 1)

\* ">> 8" of an int: the arithmetic shift, rounding towards minus infinity
Shr8(v) == v \div 256

\* "((66 * r + 129 * g + 25 * b + 128) >> 8) + 16"
LumaOf(r, g, b) == Shr8(66 * r + 129 * g + 25 * b + 128) + 16
\* "((-38 * r - 74 * g + 112 * b + 128) >> 8) + 128"
ChromaUOf(r, g, b) == Shr8(112 * b - 38 * r - 74 * g + 128) + 128
\* "((112 * r - 94 * g - 18 * b + 128) >> 8) + 128"
ChromaVOf(r, g, b) == Shr8(112 * r - 94 * g - 18 * b + 128) + 128

\* mutant: the pixel is read as R, G, B instead of B, G, R
ConvertBGRAtoNV12_ReadsRGB(bgra, srcWidth, srcHeight, m_width, m_height, srcBytesPerPixel, srcStride) ==
    LET Px(px, py, ch) == At(bgra, py * srcStride + px * srcBytesPerPixel + (2 - ch))
        Sum(x, y, ch) ==
            Px(NearestSource(x * 2, srcWidth, m_width),
               NearestSource(y * 2, srcHeight, m_height), ch)
          + Px(NearestSource(x * 2 + 1, srcWidth, m_width),
               NearestSource(y * 2, srcHeight, m_height), ch)
          + Px(NearestSource(x * 2, srcWidth, m_width),
               NearestSource(y * 2 + 1, srcHeight, m_height), ch)
          + Px(NearestSource(x * 2 + 1, srcWidth, m_width),
               NearestSource(y * 2 + 1, srcHeight, m_height), ch)
        yPlaneSize == m_width * m_height
    IN  [ i \in 1..(yPlaneSize + m_width * (m_height \div 2)) |->
            IF i <= yPlaneSize
            THEN LET srcY == NearestSource((i - 1) \div m_width, srcHeight, m_height)
                     srcX == NearestSource((i - 1) % m_width, srcWidth, m_width)
                 IN  Clamp(LumaOf(Px(srcX, srcY, 2), Px(srcX, srcY, 1),
                                  Px(srcX, srcY, 0)), 0, 255)
            ELSE LET y == (i - 1 - yPlaneSize) \div m_width
                     x == ((i - 1 - yPlaneSize) % m_width) \div 2
                     r == Sum(x, y, 2) \div 4
                     g == Sum(x, y, 1) \div 4
                     b == Sum(x, y, 0) \div 4
                 IN  IF (i - 1 - yPlaneSize) % 2 = 0
                     THEN Clamp(ChromaUOf(r, g, b), 0, 255)
                     ELSE Clamp(ChromaVOf(r, g, b), 0, 255) ]

\* ConvertBGRAtoNV12(bgra, srcWidth, srcHeight) of a capturer of
\* m_width x m_height whose image has srcBytesPerPixel bytes per pixel and
\* srcStride bytes per line: the bytes of m_nv12Buffer after the call.
\* Px(px, py, ch) is pixel[ch] of the source pixel; Sum is rSum / gSum / bSum
\* over the four pixels of a block (count = 4).
ConvertBGRAtoNV12(bgra, srcWidth, srcHeight, m_width, m_height, srcBytesPerPixel, srcStride) ==
    LET Px(px, py, ch) == At(bgra, py * srcStride + px * srcBytesPerPixel + ch)
        Sum(x, y, ch) ==
            Px(NearestSource(x * 2, srcWidth, m_width),
               NearestSource(y * 2, srcHeight, m_height), ch)
          + Px(NearestSource(x * 2 + 1, srcWidth, m_width),
               NearestSource(y * 2, srcHeight, m_height), ch)
          + Px(NearestSource(x * 2, srcWidth, m_width),
               NearestSource(y * 2 + 1, srcHeight, m_height), ch)
          + Px(NearestSource(x * 2 + 1, srcWidth, m_width),
               NearestSource(y * 2 + 1, srcHeight, m_height), ch)
        yPlaneSize == m_width * m_height
    IN  [ i \in 1..(yPlaneSize + m_width * (m_height \div 2)) |->
            IF i <= yPlaneSize
            THEN LET srcY == NearestSource((i - 1) \div m_width, srcHeight, m_height)
                     srcX == NearestSource((i - 1) % m_width, srcWidth, m_width)
                 IN  Clamp(LumaOf(Px(srcX, srcY, 2), Px(srcX, srcY, 1),
                                  Px(srcX, srcY, 0)), 0, 255)
            ELSE LET y == (i - 1 - yPlaneSize) \div m_width
                     x == ((i - 1 - yPlaneSize) % m_width) \div 2
                     r == Sum(x, y, 2) \div 4
                     g == Sum(x, y, 1) \div 4
                     b == Sum(x, y, 0) \div 4
                 IN  IF (i - 1 - yPlaneSize) % 2 = 0
                     THEN Clamp(ChromaUOf(r, g, b), 0, 255)
                     ELSE Clamp(ChromaVOf(r, g, b), 0, 255) ]

\* pixels tried, as << B, G, R >>: white, black, the three primaries and a
\* dark colour with three different channels on the smallest frame; white and
\* the dark colour on the larger ones
White == << 255, 255, 255 >>
Black == << 0, 0, 0 >>
Palette(n) ==
    IF n <= 4
    THEN { White, Black, << 255, 0, 0 >>, << 0, 255, 0 >>, << 0, 0, 255 >>, << 1, 2, 3 >> }
    ELSE { White, << 1, 2, 3 >> }

\* bytes of padding after the pixels of an image line (bytes_per_line - width * 4)
LinePaddings == { 0, 4 }

\* the XImage data of a w x h image of 32 bits per pixel: B, G, R and an
\* unused byte per pixel, pad bytes after each line
ImageData(pixels, w, h, pad) ==
    [ i \in 1..(h * (w * 4 + pad)) |->
        LET line == (i - 1) \div (w * 4 + pad)
            col  == (i - 1) % (w * 4 + pad)
        IN  IF col >= w * 4 THEN 0
            ELSE IF (col % 4) = 3 THEN 255
            ELSE pixels[line * w + (col \div 4) + 1][(col % 4) + 1] ]

BgraFramesOf(w, h) ==
    { [ fn |-> "ConvertBGRAtoNV12", w |-> w, h |-> h, pixels |-> px,
        stride |-> w * 4 + pad, bgra |-> ImageData(px, w, h, pad) ] :
        px \in [ 1..(w * h) -> Palette(w * h) ], pad \in LinePaddings }

BgraArgs == UNION { BgraFramesOf(d[1], d[2]) : d \in FrameSizes }

InitBgra ==
    /\ platform = "linux"
    /\ encodeH264 = FALSE
    /\ MuxRest
    /\ EncInitFields
    /\ m_gopSize = 1
    /\ m_callback = FALSE
    /\ ObsInit
    /\ rf_in = <<>>
    /\ rf_pc = "off"
    /\ pf_in \in BgraArgs
    /\ pf_out = <<>>
    /\ ShRest
    /\ MfRest
    /\ CapiRest

\* CaptureLoop(): "ConvertBGRAtoNV12(m_image->data, m_screenWidth, m_screenHeight)"
\* on a capturer whose output size is the screen size
ConvertBgraFrame ==
    /\ pf_in.fn = "ConvertBGRAtoNV12"
    /\ pf_out = <<>>
    /\ pf_out' = ConvertBGRAtoNV12(pf_in.bgra, pf_in.w, pf_in.h, pf_in.w, pf_in.h,
                                   4, pf_in.stride)
    /\ UNCHANGED << encVars, obsVars, rfVars, mfVars, capiVars, pf_in, muxVars, shVars >>

NextBgra == ConvertBgraFrame

SpecBgra == InitBgra /\ [][NextBgra]_vars

BgraConverted == pf_in.fn = "ConvertBGRAtoNV12" /\ pf_out # <<>>

\* channel ch (1 = B, 2 = G, 3 = R) of the source pixel at (x, y)
SrcChannel(x, y, ch) == pf_in.pixels[y * pf_in.w + x + 1][ch]

\* the integer-truncated average of a channel over the 2x2 block (bx, by)
BlockAvg(bx, by, ch) ==
    (SrcChannel(2 * bx, 2 * by, ch) + SrcChannel(2 * bx + 1, 2 * by, ch)
     + SrcChannel(2 * bx, 2 * by + 1, ch) + SrcChannel(2 * bx + 1, 2 * by + 1, ch)) \div 4

\* C21: without scaling, the Y plane holds for every pixel
\* clamp(((66R + 129G + 25B + 128) >> 8) + 16, 0, 255) and the UV plane holds
\* for every 2x2 block, from the truncated averages of R, G, B over its four
\* pixels, U = clamp(((-38R - 74G + 112B + 128) >> 8) + 128, 0, 255) and
\* V = clamp(((112R - 94G - 18B + 128) >> 8) + 128, 0, 255); white gives
\* Y = 235, U = V = 128 and black gives Y = 16, U = V = 128.
C21_ConvertBGRAtoNV12 ==
    BgraConverted =>
        LET w == pf_in.w
            h == pf_in.h
        IN  /\ Len(pf_out) = w * h + 2 * (w \div 2) * (h \div 2)
            /\ \A x \in 0..(w - 1), y \in 0..(h - 1) :
                  LET B == SrcChannel(x, y, 1)
                      G == SrcChannel(x, y, 2)
                      R == SrcChannel(x, y, 3)
                  IN  /\ At(pf_out, y * w + x)
                           = Clamp(((66 * R + 129 * G + 25 * B + 128) \div 256) + 16, 0, 255)
                      /\ pf_in.pixels[y * w + x + 1] = White => At(pf_out, y * w + x) = 235
                      /\ pf_in.pixels[y * w + x + 1] = Black => At(pf_out, y * w + x) = 16
            /\ \A bx \in 0..(w \div 2 - 1), by \in 0..(h \div 2 - 1) :
                  LET B == BlockAvg(bx, by, 1)
                      G == BlockAvg(bx, by, 2)
                      R == BlockAvg(bx, by, 3)
                      uv == w * h + (by * (w \div 2) + bx) * 2
                  IN  /\ At(pf_out, uv)
                           = Clamp(((112 * B - 38 * R - 74 * G + 128) \div 256) + 128, 0, 255)
                      /\ At(pf_out, uv + 1)
                           = Clamp(((112 * R - 94 * G - 18 * B + 128) \div 256) + 128, 0, 255)
                      /\ (\A p \in 1..(w * h) : pf_in.pixels[p] = White)
                            => At(pf_out, uv) = 128 /\ At(pf_out, uv + 1) = 128
                      /\ (\A p \in 1..(w * h) : pf_in.pixels[p] = Black)
                            => At(pf_out, uv) = 128 /\ At(pf_out, uv + 1) = 128

C21_Witness ==
    /\ BgraConverted
    /\ pf_in.w = 2
    /\ pf_in.stride = 12
    /\ pf_in.pixels = << White, Black, << 0, 0, 255 >>, << 1, 2, 3 >> >>
    /\ pf_out[1] = 235
    /\ pf_out[2] = 16


----------------------------------------------------------------------------
(* One encoder session: a VaapiEncoder on Linux, a MediaFoundationEncoder  *)
(* on Windows                                                               *)

InitSessions == InitEnc \/ InitMf

NextSessions ==
    \/ platform = "linux" /\ NextEnc
    \/ platform = "windows" /\ NextMf

SpecSessions == InitSessions /\ [][NextSessions]_vars


\* the EncodeNV12 call that just returned took the frame and returned true
MfEncoded == platform = "windows" /\ Submitted /\ lastCall.ret

\* C24: when Submit k returns ok the output callback for frame k has been
\* invoked, and every output of frame k is delivered during Submit k: never
\* during a later Submit and never after Submit k returned.
C24_OutputWithinSubmit ==
    /\ \A i \in 1..Len(delivered) :
          delivered[i].during = "EncodeNV12" /\ delivered[i].call = delivered[i].k
    /\ (MfEncoded /\ m_callback)
          => \E i \in 1..Len(lastCall.cbs) : lastCall.cbs[i].k = lastCall.k

\* C25: from the moment Stop() is entered the output callback is not invoked:
\* no output is delivered during Stop().
C25_StopDeliversNothing ==
    \A i \in 1..Len(delivered) : delivered[i].during # "Stop"

\* an EncodeNV12 call on a session that is not initialized
NotReadySubmit == nSubmit' = nSubmit + 1 /\ ~m_initialized

\* C27: a Submit on a session that is not initialized (never initialized,
\* initialization failed, or stopped) returns false, invokes no callback and
\* leaves the GOP counters, the slot index, the reference slot, the cached
\* parameter sets and the state of the session as they were.
C27_NotReadySubmitRejected ==
    [][ NotReadySubmit =>
          /\ lastCall'.op = "EncodeNV12"
          /\ ~lastCall'.ret
          /\ lastCall'.cbs = <<>>
          /\ UNCHANGED << m_frameCount, m_frameNumInGop, m_idrPicId,
                          m_currentSurface, m_refSurface, m_refSurfaceIndex,
                          m_sps, m_pps, m_haveSpsPs, m_avccBuffer, m_initialized,
                          stopState, m_encoder, mft, delivered >> ]_vars

\* a stopped Windows session that had encoded frames refused a frame
C27_Witness ==
    /\ platform = "windows"
    /\ Submitted
    /\ lastCall.fail = "not initialized"
    /\ stopState = "stopped"
    /\ m_frameCount > 0

\* C30: Stop() always terminates: once entered it returns, and the session is
\* not initialized then.
C30_StopTerminates ==
    (mfpc # "idle") ~> (mfpc = "idle" /\ ~m_initialized)


----------------------------------------------------------------------------
(* Claims about what ends the capture command *)

\* C29: no error other than encoder unavailability terminates the capture
\* command: a failed submission, a malformed bitstream or a closed output
\* channel only skips a frame or packet, so the running flag is cleared by
\* the shutdown signal and by nothing else.
C29_OnlySignalClearsRunning ==
    [][ (g_running /\ ~g_running') => (~sigSent /\ sigSent') ]_vars


----------------------------------------------------------------------------
(* MediaFoundationEncoder::OutputNalUnits.  The bytes are data[0 .. size-1]; *)
(* a read at an index from size on is outside the buffer and yields          *)
(* whatever byte lies there (oob).  top is the highest index read so far.    *)

\* data[i], or the byte behind the buffer
ByteAt(data, i, oob) == IF i < Len(data) THEN At(data, i) ELSE oob

Max(a, b) == IF a > b THEN a ELSE b

\* the highest index the start-code test at i reads, the && being
\* short-circuit; four says whether data[i+3] is read after three 00 bytes
TestTop(data, i, four) ==
    IF At(data, i) # 0 THEN i
    ELSE IF At(data, i + 1) # 0 THEN i + 1
    ELSE IF At(data, i + 2) # 0 \/ ~four THEN i + 2
    ELSE i + 3

\* for comparison: the inner loop with its 4-byte test made only where
\* i + 4 <= size, as ConvertAnnexBToAVCC makes it
RECURSIVE WinFindNalEnd_Guarded(_, _, _, _)
WinFindNalEnd_Guarded(data, i, oob, top) ==
    IF i + 3 > Len(data) THEN [ end |-> Len(data), top |-> top ]
    ELSE LET four == i + 4 <= Len(data)
             reached == Max(top, TestTop(data, i, four))
         IN  IF At(data, i) = 0 /\ At(data, i + 1) = 0
                /\ ( (four /\ At(data, i + 2) = 0 /\ At(data, i + 3) = 1)
                     \/ At(data, i + 2) = 1 )
             THEN [ end |-> i, top |-> reached ]
             ELSE WinFindNalEnd_Guarded(data, i + 1, oob, reached)

\* "for (size_t i = nalStart; i + 3 <= size; i++)": the first i where
\* 00 00 00 01 or 00 00 01 is reached, else size; data[i+3] is read whenever
\* data[i], data[i+1] and data[i+2] are 00
RECURSIVE WinFindNalEnd(_, _, _, _)
WinFindNalEnd(data, i, oob, top) ==
    IF i + 3 > Len(data) THEN [ end |-> Len(data), top |-> top ]
    ELSE LET reached == Max(top, TestTop(data, i, TRUE))
         IN  IF At(data, i) = 0 /\ At(data, i + 1) = 0
                /\ ( (At(data, i + 2) = 0 /\ ByteAt(data, i + 3, oob) = 1)
                     \/ At(data, i + 2) = 1 )
             THEN [ end |-> i, top |-> reached ]
             ELSE WinFindNalEnd(data, i + 1, oob, reached)

\* the outer loop "while (pos < size)"; st.out is m_outputBuffer
RECURSIVE WinScan(_, _, _, _)
WinScan(data, pos, oob, st) ==
    IF pos >= Len(data) THEN st
    ELSE LET startCodeLen == StartCodeLen(data, pos)
             reached == IF pos + 3 <= Len(data)
                     THEN Max(st.top, TestTop(data, pos, pos + 4 <= Len(data)))
                     ELSE st.top
         IN  IF startCodeLen = 0
             THEN WinScan(data, pos + 1, oob, [ st EXCEPT !.top = reached ])
             ELSE LET nalStart == pos + startCodeLen
                      e == WinFindNalEnd(data, nalStart, oob, reached)
                  IN  WinScan(data, e.end, oob,
                         [ out |-> IF e.end - nalStart > 0
                                   THEN st.out \o BE32(e.end - nalStart)
                                               \o Slice(data, nalStart, e.end)
                                   ELSE st.out,
                           top |-> e.top ])

\* OutputNalUnits(data, size, isKeyframe): cbs are the callback's arguments
OutputNalUnits(data, isKeyframe, hasCallback, oob) ==
    IF ~hasCallback \/ Len(data) = 0 THEN [ out |-> <<>>, top |-> -1, cbs |-> <<>> ]
    ELSE LET r == WinScan(data, 0, oob, [ out |-> <<>>, top |-> -1 ])
         IN  [ out |-> r.out, top |-> r.top,
               cbs |-> IF r.out # <<>>
                       THEN << [ data |-> r.out, key |-> isKeyframe ] >>
                       ELSE <<>> ]

WinBuffers == { Flatten(ts) : ts \in UNION { [1..n -> Tokens] : n \in 0..MaxWinTokens } }

\* the byte that lies behind the buffer: 01, or anything else
OobBytes == { 0, 1 }

InitNal ==
    /\ platform = "windows"
    /\ encodeH264 = TRUE
    /\ MuxRest
    /\ EncInitFields
    /\ m_gopSize = 1
    /\ m_callback \in BOOLEAN
    /\ ObsInit
    /\ rf_in \in WinBuffers
    /\ rf_pc = "off"
    /\ pf_in \in { [ fn |-> "OutputNalUnits", oob |-> v ] : v \in OobBytes }
    /\ pf_out = <<>>
    /\ ShRest
    /\ MfRest
    /\ CapiRest

\* RetrieveOutput(): "OutputNalUnits(data, length, isKeyframe)"
OutputBuffer(isKeyframe) ==
    /\ pf_in.fn = "OutputNalUnits"
    /\ pf_out = <<>>
    /\ pf_out' = << OutputNalUnits(rf_in, isKeyframe, m_callback, pf_in.oob) >>
    /\ UNCHANGED << encVars, obsVars, rfVars, mfVars, capiVars, pf_in, muxVars, shVars >>

NextNal == \E isKeyframe \in BOOLEAN : OutputBuffer(isKeyframe)

SpecNal == InitNal /\ [][NextNal]_vars

\* OutputNalUnits has run on rf_in
NalDone == pf_in.fn = "OutputNalUnits" /\ pf_out # <<>>

\* C32: the reframers read input bytes at indices 0 <= i < size only, for
\* every buffer, also one that ends in 00 00 00.
C32_ReadsWithinBuffer ==
    NalDone => pf_out[1].top < Len(rf_in)

\* what ConvertAnnexBToAVCC hands to the callback for the same buffer
LinuxCallbacks(b, isKeyframe, hasCallback) ==
    LET r == ConvertAnnexBToAVCC(b, isKeyframe,
                [ sps |-> <<>>, pps |-> <<>>, have |-> FALSE, cbs |-> <<>>,
                  cb |-> hasCallback, seg |-> 0 ])
    IN  [ i \in 1..Len(r.cbs) |-> [ data |-> r.cbs[i].data, key |-> r.cbs[i].key ] ]

\* C37: for every buffer OutputNalUnits and ConvertAnnexBToAVCC hand the same
\* length-prefixed bytes to the callback, and both hand over nothing when no
\* unit is found.
C37_ReframersAgree ==
    NalDone =>
        \E isKeyframe \in BOOLEAN :
            pf_out[1].cbs = LinuxCallbacks(rf_in, isKeyframe, m_callback)


----------------------------------------------------------------------------
(* EncodeNV12: the copy of the caller's frame into the mapped surface       *)
(* (VaapiEncoder) or staging texture (MediaFoundationEncoder).  The caller  *)
(* hands over size bytes, nv12Data[0 .. size-1].                             *)

\* the number of bytes of nv12Data the two copy loops read: m_height rows of
\* m_width bytes for Y, then m_height / 2 rows of m_width bytes for UV
BytesCopied(m_width, m_height) == m_width * m_height + (m_height \div 2) * m_width

\* which step before the copy fails: vaDeriveImage / vaMapBuffer on Linux,
\* Map on Windows
UploadFailPoints(variant) ==
    IF variant = "linux" THEN { "none", "vaDeriveImage", "vaMapBuffer" }
    ELSE { "none", "Map" }

\* EncodeNV12(nv12Data, size, timestampMs) up to the end of the copy, on an
\* initialized session: size is not looked at
UploadNV12(m_width, m_height, size, fail) ==
    IF fail # "none" THEN [ copied |-> FALSE, read |-> 0 ]
    ELSE [ copied |-> TRUE, read |-> BytesCopied(m_width, m_height) ]

\* the encoder is constructed with the requested width and height; the frame
\* has the size the capturer negotiated with the device (V4L2Capturer:
\* m_width * m_height * 3 / 2 of what VIDIOC_S_FMT returned)
UploadSizes == (1..MaxWidth) \X (1..MaxHeight)

UploadArgs ==
    { [ fn |-> "EncodeNV12", width |-> e[1], height |-> e[2],
        frameWidth |-> c[1], frameHeight |-> c[2],
        size |-> (c[1] * c[2] * 3) \div 2 ] : e \in UploadSizes, c \in UploadSizes }

InitUpload ==
    /\ platform \in { "linux", "windows" }
    /\ encodeH264 = TRUE
    /\ MuxRest
    /\ EncInitFields
    /\ m_gopSize = 1
    /\ m_callback = TRUE
    /\ ObsInit
    /\ rf_in = <<>>
    /\ rf_pc = "off"
    /\ pf_in \in UploadArgs
    /\ pf_out = <<>>
    /\ ShRest
    /\ MfRest
    /\ CapiRest

\* frameCallback: "encoder->EncodeNV12(data, size, timestamp)"
UploadFrame(fail) ==
    /\ pf_in.fn = "EncodeNV12"
    /\ pf_out = <<>>
    /\ fail \in UploadFailPoints(platform)
    /\ pf_out' = << UploadNV12(pf_in.width, pf_in.height, pf_in.size, fail) >>
    /\ UNCHANGED << encVars, obsVars, rfVars, mfVars, capiVars, pf_in, muxVars, shVars >>

NextUpload ==
    \E fail \in { "none", "vaDeriveImage", "vaMapBuffer", "Map" } : UploadFrame(fail)

SpecUpload == InitUpload /\ [][NextUpload]_vars

\* EncodeNV12 has run on the frame
Uploaded == pf_in.fn = "EncodeNV12" /\ pf_out # <<>>

\* C33: EncodeNV12 reads no more than the size bytes it was given, and a
\* frame whose size is not width * height * 3 / 2 of the encoder is not
\* copied.
C33_ReadsAtMostSize ==
    Uploaded =>
        /\ pf_out[1].read <= pf_in.size
        /\ pf_in.size # (pf_in.width * pf_in.height * 3) \div 2 => ~pf_out[1].copied

-----------------------------------------------------------------------------
(* The renderer's C API (SnackaWindowsRenderer/src/CApi.cpp): handles are the
   addresses of the decoder objects, s_instances maps each live handle to its
   object, and s_mutex guards s_instances. *)

\* std::lock_guard<std::mutex> lock(s_mutex) can be entered
CanLock_Always(mutex) == TRUE

CanLock(mutex) == mutex = 0

\* the functions that take a handle and call a method of the decoder, by result type
ApiMethods == { "mf_decoder_initialize", "mf_decoder_get_view", "mf_decoder_get_output_count" }

\* what such a function returns when it does not reach the decoder
FailValue(fn) ==
    CASE fn = "mf_decoder_initialize" -> FALSE
      [] fn = "mf_decoder_get_view" -> "nullptr"
      [] fn = "mf_decoder_get_output_count" -> 0

\* what the decoder's method can return
MethodResults(fn) ==
    CASE fn = "mf_decoder_initialize" -> BOOLEAN
      [] fn = "mf_decoder_get_view" -> { "nullptr", "view" }
      [] fn = "mf_decoder_get_output_count" -> 0..1

\* a pointer value that is the address of no decoder object, ever
UnknownHandle == NumAddrs + 1

\* the handle values a caller can pass: nullptr, a value that is no decoder's address,
\* or a handle some create returned, whether or not it was destroyed since
ApiHandles ==
    { [h |-> NullHandle, inst |-> 0], [h |-> UnknownHandle, inst |-> 0] } \cup known

\* the object a handle named is gone, or it never named one
DeadHandle(hd) == hd.inst = 0 \/ hd.inst \in deleted

\* mf_decoder_create, "new MediaFoundationDecoder()": the allocator hands out any
\* address that holds no object, one that was freed before included; or new (or the
\* constructor) throws and the catch returns nullptr
Create_New(t) ==
    /\ cpc[t] = "idle"
    /\ nInst < MaxDecoders
    /\ \/ \E a \in Addrs :
            /\ heap[a] = 0
            /\ heap' = [heap EXCEPT ![a] = nInst + 1]
            /\ nInst' = nInst + 1
            /\ cpc' = [cpc EXCEPT ![t] = "create_lock"]
            /\ carg' = [carg EXCEPT ![t] = [fn |-> "mf_decoder_create", h |-> a,
                                           inst |-> nInst + 1, dead |-> FALSE,
                                           obj |-> nInst + 1]]
            /\ UNCHANGED cret
       \/ /\ cret' = [by |-> t, fn |-> "mf_decoder_create", ret |-> NullHandle,
                      ran |-> 0, dead |-> FALSE]
          /\ UNCHANGED << heap, nInst, cpc, carg >>
    /\ UNCHANGED << encVars, obsVars, rfVars, pfVars, muxVars, shVars, mfVars,
                    s_instances, s_mutex, known, deleted >>

\* mf_decoder_create, "s_instances[decoder] = decoder; return decoder;" under s_mutex
Create_Register(t) ==
    /\ cpc[t] = "create_lock"
    /\ CanLock(s_mutex)
    /\ s_instances' = s_instances \cup { carg[t].h }
    /\ known' = known \cup { [h |-> carg[t].h, inst |-> carg[t].inst] }
    /\ cret' = [by |-> t, fn |-> "mf_decoder_create", ret |-> carg[t].h,
                                   ran |-> carg[t].obj, dead |-> FALSE]
    /\ cpc' = [cpc EXCEPT ![t] = "idle"]
    /\ carg' = [carg EXCEPT ![t] = NoApiCall]
    /\ UNCHANGED << encVars, obsVars, rfVars, pfVars, muxVars, shVars, mfVars,
                    heap, s_mutex, nInst, deleted >>

\* a thread calls fn(handle, ...)
Api_Call(t, fn, hd) ==
    /\ cpc[t] = "idle"
    /\ cpc' = [cpc EXCEPT ![t] = IF fn = "mf_decoder_destroy" THEN "destroy_entered"
                                 ELSE "entered"]
    /\ carg' = [carg EXCEPT ![t] = [fn |-> fn, h |-> hd.h, inst |-> hd.inst,
                                   dead |-> DeadHandle(hd), obj |-> 0]]
    /\ UNCHANGED << encVars, obsVars, rfVars, pfVars, muxVars, shVars, mfVars,
                    heap, s_instances, s_mutex, known, nInst, deleted, cret >>

\* mf_decoder_destroy up to the end of its locked block: "if (!handle) return;",
\* then under s_mutex find the handle and erase it; "delete decoder" is still to come
Destroy_Erase(t) ==
    /\ cpc[t] = "destroy_entered"
    /\ IF carg[t].h = NullHandle
       THEN /\ cret' = [by |-> t, fn |-> carg[t].fn, ret |-> "void", ran |-> 0,
                                           dead |-> carg[t].dead]
            /\ cpc' = [cpc EXCEPT ![t] = "idle"]
            /\ carg' = [carg EXCEPT ![t] = NoApiCall]
            /\ UNCHANGED s_instances
       ELSE /\ CanLock(s_mutex)
            /\ IF carg[t].h \in s_instances
               THEN /\ s_instances' = s_instances \ { carg[t].h }
                    /\ carg' = [carg EXCEPT ![t].obj = heap[carg[t].h]]
                    /\ cpc' = [cpc EXCEPT ![t] = "destroy_delete"]
                    /\ UNCHANGED cret
               ELSE /\ cret' = [by |-> t, fn |-> carg[t].fn, ret |-> "void",
                                                   ran |-> 0, dead |-> carg[t].dead]
                    /\ cpc' = [cpc EXCEPT ![t] = "idle"]
                    /\ carg' = [carg EXCEPT ![t] = NoApiCall]
                    /\ UNCHANGED s_instances
    /\ UNCHANGED << encVars, obsVars, rfVars, pfVars, muxVars, shVars, mfVars,
                    heap, s_mutex, known, nInst, deleted >>

\* mf_decoder_destroy, "delete decoder;" after the lock was released
Destroy_Delete(t) ==
    /\ cpc[t] = "destroy_delete"
    /\ deleted' = deleted \cup { carg[t].obj }
    /\ heap' = [heap EXCEPT ![carg[t].h] = 0]
    /\ cret' = [by |-> t, fn |-> carg[t].fn, ret |-> "void", ran |-> carg[t].obj,
                                   dead |-> carg[t].dead]
    /\ cpc' = [cpc EXCEPT ![t] = "idle"]
    /\ carg' = [carg EXCEPT ![t] = NoApiCall]
    /\ UNCHANGED << encVars, obsVars, rfVars, pfVars, muxVars, shVars, mfVars,
                    s_instances, s_mutex, known, nInst >>

\* a method function up to its call of the decoder: "if (!handle) return false;",
\* then take s_mutex and look the handle up; not found returns false / nullptr / 0,
\* found goes on to "it->second->Method(...)" with s_mutex held
Api_Lookup(t) ==
    /\ cpc[t] = "entered"
    /\ IF carg[t].h = NullHandle
       THEN /\ cret' = [by |-> t, fn |-> carg[t].fn, ret |-> FailValue(carg[t].fn),
                                           ran |-> 0, dead |-> carg[t].dead]
            /\ cpc' = [cpc EXCEPT ![t] = "idle"]
            /\ carg' = [carg EXCEPT ![t] = NoApiCall]
            /\ UNCHANGED s_mutex
       ELSE /\ CanLock(s_mutex)
            /\ IF carg[t].h \in s_instances
               THEN /\ s_mutex' = t
                    /\ carg' = [carg EXCEPT ![t].obj = heap[carg[t].h]]
                    /\ cpc' = [cpc EXCEPT ![t] = "method_run"]
                    /\ UNCHANGED cret
               ELSE /\ cret' = [by |-> t, fn |-> carg[t].fn,
                                                   ret |-> FailValue(carg[t].fn),
                                                   ran |-> 0, dead |-> carg[t].dead]
                    /\ cpc' = [cpc EXCEPT ![t] = "idle"]
                    /\ carg' = [carg EXCEPT ![t] = NoApiCall]
                    /\ UNCHANGED s_mutex
    /\ UNCHANGED << encVars, obsVars, rfVars, pfVars, muxVars, shVars, mfVars,
                    heap, s_instances, known, nInst, deleted >>

\* the decoder's method returns r, and the function returns it as the lock_guard
\* releases s_mutex
Api_Return(t, r) ==
    /\ cpc[t] = "method_run"
    /\ s_mutex' = 0
    /\ cret' = [by |-> t, fn |-> carg[t].fn, ret |-> r, ran |-> carg[t].obj,
                                   dead |-> carg[t].dead]
    /\ cpc' = [cpc EXCEPT ![t] = "idle"]
    /\ carg' = [carg EXCEPT ![t] = NoApiCall]
    /\ UNCHANGED << encVars, obsVars, rfVars, pfVars, muxVars, shVars, mfVars,
                    heap, s_instances, known, nInst, deleted >>

InitCApi ==
    /\ platform = "windows"
    /\ encodeH264 = FALSE
    /\ MuxRest
    /\ EncInitFields
    /\ m_gopSize = 1
    /\ m_callback = FALSE
    /\ ObsInit
    /\ rf_in = <<>>
    /\ rf_pc = "off"
    /\ PureRest
    /\ ShRest
    /\ MfRest
    /\ CapiInit

NextCApi ==
    \E t \in Callers :
        \/ Create_New(t)
        \/ Create_Register(t)
        \/ \E fn \in ApiMethods \cup { "mf_decoder_destroy" }, hd \in ApiHandles : Api_Call(t, fn, hd)
        \/ Destroy_Erase(t)
        \/ Destroy_Delete(t)
        \/ Api_Lookup(t)
        \/ \E r \in (IF carg[t].fn \in ApiMethods THEN MethodResults(carg[t].fn) ELSE {}) : Api_Return(t, r)

SpecCApi == InitCApi /\ [][NextCApi]_vars

\* thread t has a decoder object in hand: inside a decoder method, or about to delete it
InMethod(t) == cpc[t] = "method_run"

Deleting(t) == cpc[t] = "destroy_delete"

\* thread t's call ends here without having found its handle: the handle is null, or
\* it is not a key of s_instances when the call looks it up under s_mutex
EndsUnregistered(t) ==
    /\ cpc[t] \in { "entered", "destroy_entered" }
    /\ cpc'[t] # cpc[t]
    /\ (carg[t].h = NullHandle \/ carg[t].h \notin s_instances)

\* C39 (as the code has it): under any interleaving of calls from several threads, a
\* decoder method only runs on an object that is not deleted and that no thread is
\* about to delete, no object is deleted twice, and every call whose handle is null or
\* is not registered in s_instances when the call looks it up returns false / null / 0
\* (nothing for mf_decoder_destroy) without touching any decoder.
C39_NoMethodOnDeletedInstance ==
    /\ [](\A t \in Callers :
            /\ InMethod(t) =>
                 /\ carg[t].obj # 0
                 /\ carg[t].obj \notin deleted
                 /\ heap[carg[t].h] = carg[t].obj
                 /\ \A u \in Callers : Deleting(u) => carg[u].obj # carg[t].obj
            /\ Deleting(t) =>
                 /\ carg[t].obj # 0
                 /\ carg[t].obj \notin deleted
                 /\ \A u \in Callers \ { t } : Deleting(u) => carg[u].obj # carg[t].obj)
    /\ [][\A t \in Callers :
            EndsUnregistered(t) =>
                /\ cpc'[t] = "idle"
                /\ cret'.by = t
                /\ cret'.ran = 0
                /\ cret'.fn \in ApiMethods => cret'.ret = FailValue(cret'.fn)
                /\ UNCHANGED << heap, s_instances, deleted >>]_vars

\* a destroy of a handle waits for s_mutex while a method runs on the object the
\* handle names, at an address that an earlier, deleted decoder had
C39_Witness ==
    \E t, u \in Callers :
        /\ InMethod(t)
        /\ cpc[u] = "destroy_entered"
        /\ carg[u].h = carg[t].h
        /\ deleted # {}
        /\ \E k \in known : k.h = carg[t].h /\ k.inst \in deleted

\* C39 (as stated): moreover every call made with a handle that was already destroyed,
\* or that no create had returned, when the call was made returns false / null / 0
\* without touching any decoder.
C39_DestroyedHandleTouchesNothing ==
    (cret.fn # "none" /\ cret.dead) =>
        /\ cret.ran = 0
        /\ cret.fn \in ApiMethods => cret.ret = FailValue(cret.fn)

=============================================================================
